---- MODULE Spec2Model ----
(***************************************************************************)
(* POUNDERS trust-region driver (estimagic/optimization/pounders.py).      *)
(*                                                                         *)
(* The driver is modelled for one parameter (n = 1) and one residual       *)
(* (m = 1).  Points, residuals, criterion values and radii are integers;   *)
(* every ratio the code forms is kept as a numerator and a denominator     *)
(* and compared by cross-multiplication.  A float zero keeps its sign,     *)
(* because np.divide(a, +0.0) and np.divide(a, -0.0) differ.               *)
(***************************************************************************)
EXTENDS Integers, Sequences, FiniteSets, TLC

(***************************************************************************)
(* Bounds of the model                                                     *)
(***************************************************************************)
\* largest value of the argument maxiter that is explored
MaxMaxiter == 1
\* points live on the grid -MaxPos .. MaxPos
MaxPos == 8
\* largest maxiter of minimize_gqtpar_quadratic that is explored
GqtparMaxiter == 3
BntrMaxiter == 2
\* the lambdas of minimize_gqtpar_quadratic are 0 .. MaxLambda
MaxLambda == 2
\* the floats of the sub-solvers are the multiples of 1/Scale
Scale == 16

\* number of parameters, n = x0.shape[0]
n == 1
\* max_interpolation_points = 2 * x.shape[0] + 1
n_maxinterp == 2 * n + 1
\* number of parameters of the linear subproblem, n = model_gradient.shape[0]
n_trsbox == 3
\* number of parameters of the conjugate gradient subproblem
n_cg == 2
\* number of parameters in the calls of get_information_on_active_bounds_fast
n_active == 2
\* zero_treshold of the linear sub-solver, in units of 1/Scale
zero_treshold == 2

\* trustregion_threshold_successful = 0
eta0 == [num |-> 0, den |-> 1]
\* trustregion_threshold_very_successful = 0.1
eta1 == [num |-> 1, den |-> 10]
\* c1 = sqrt(n) = 1 for n = 1
c1 == n
\* values of the argument c2 (10 by default)
C2Values == {1, 10}

\* values of the criterion (one residual) the black box may return
ResidualValues == {0, 1}
\* <<delta_min, delta, delta_max>> with delta_min <= delta <= delta_max
Radii == { <<1, 1, 1>>, <<1, 1, 2>>, <<1, 2, 4>> }
\* trustregion_shrinking_factor_not_successful = 0.5
gamma0 == [num |-> 1, den |-> 2]
\* trustregion_expansion_factor_successful = 2
gamma1 == [num |-> 2, den |-> 1]
\* <<lower_bounds, upper_bounds>>: arrays of length n, None when no bound
\* is passed
None == << >>
Bounds ==
    { <<None, None>>, << <<-MaxPos>>, <<MaxPos>> >>, << <<-MaxPos>>, <<0>> >>,
      <<None, <<0>> >> }
\* steps the subproblem solver may return (inside the unit ball)
SubSteps == {-1, 0, 1}
\* model criterion values the subproblem solver may return; nz marks -0.0
SubCriteria ==
    { [v |-> -16, nz |-> FALSE], [v |-> -1, nz |-> FALSE],
      [v |-> 0, nz |-> FALSE], [v |-> 0, nz |-> TRUE] }
\* norms of the main model's gradient (times delta) the fit may produce
GradientNorms == {0, 1}
\* gtol_abs, gtol_rel, gtol_scaled
Tolerances == { <<0, 0, 0>>, <<1, 0, 0>>, <<0, 1, 0>>, <<0, 0, 1>> }

Abs(a) == IF a < 0 THEN -a ELSE a
Min(a, b) == IF a <= b THEN a ELSE b
Max(a, b) == IF a >= b THEN a ELSE b

(***************************************************************************)
(* Float division as np.divide computes it                                 *)
(***************************************************************************)
\* -f for a float f = [v, nz]
Negate(f) == [v |-> -f.v, nz |-> (f.v = 0) /\ ~f.nz]

\* np.divide(a, b): a an exact difference (its zero is +0.0), b a float
Divide(a, b) ==
    IF b.v # 0
      THEN IF b.v > 0 THEN [kind |-> "fin", num |-> a, den |-> b.v]
                      ELSE [kind |-> "fin", num |-> -a, den |-> -b.v]
      ELSE IF a = 0 THEN [kind |-> "nan", num |-> 0, den |-> 1]
           ELSE IF (a > 0) = (~b.nz) THEN [kind |-> "pinf", num |-> 0, den |-> 1]
                                     ELSE [kind |-> "ninf", num |-> 0, den |-> 1]

\* rho >= eta and rho > eta for a threshold eta = num/den, den > 0
GreaterEqual(r, eta) ==
    \/ r.kind = "pinf"
    \/ r.kind = "fin" /\ r.num * eta.den >= eta.num * r.den
Greater(r, eta) ==
    \/ r.kind = "pinf"
    \/ r.kind = "fin" /\ r.num * eta.den > eta.num * r.den

(***************************************************************************)
(* LeastSquaresHistory: a sequence of records [x, residuals]; the code's   *)
(* index i is position i + 1 of the sequence, index -1 the last one.       *)
(***************************************************************************)
critval_of(residuals) == residuals * residuals

add_entries(h, xs, residuals) ==
    h \o [k \in 1..Len(xs) |-> [x |-> xs[k], residuals |-> residuals[k]]]

get_n_fun(h) == Len(h)
get_xs(h, index) == h[index + 1].x
get_residuals(h, index) == h[index + 1].residuals
get_critvals(h, index) == critval_of(h[index + 1].residuals)

\* index of the minimal criterion value, the first one on a tie
get_best_index(h) ==
    CHOOSE i \in 0..(Len(h) - 1) :
        /\ \A j \in 0..(Len(h) - 1) : get_critvals(h, i) <= get_critvals(h, j)
        /\ \A j \in 0..(i - 1) : get_critvals(h, j) > get_critvals(h, i)
get_best_x(h) == get_xs(h, get_best_index(h))
get_best_residuals(h) == get_residuals(h, get_best_index(h))

\* the criterion is a pure function: a point evaluated before gives the
\* residuals it gave before
criterion(h, x) ==
    { r \in ResidualValues : \A k \in 1..Len(h) : h[k].x = x => h[k].residuals = r }

\* (x[index] - center) / radius, as a fraction
get_centered_xs(h, center, radius, index) ==
    LET d == get_xs(h, index) - center IN
    [num |-> d, den |-> IF d = 0 THEN 1 ELSE radius]

(***************************************************************************)
(* Residual model and main model.  The coefficients are not computed: a    *)
(* model is identified by the residuals that are its intercepts, by the    *)
(* fit that produced its coefficients and by the shift applied to it       *)
(* since that fit.                                                         *)
(***************************************************************************)
create_initial_residual_model(h, index) ==
    [intercepts |-> get_residuals(h, index), fit |-> 0,
     shift |-> [num |-> 0, den |-> 1]]

create_main_from_residual_model(m) ==
    [intercepts |-> m.intercepts, fit |-> m.fit, shift |-> m.shift]

update_residual_model_with_new_accepted_x(m, x_candidate) ==
    [m EXCEPT !.shift = x_candidate]

update_main_model_with_new_accepted_x(m, x_candidate) ==
    [m EXCEPT !.shift = x_candidate]

\* a float that is an integer or minus infinity
Float(v) == [v |-> v, neginf |-> FALSE]
NegInf == [v |-> 0, neginf |-> TRUE]

VARIABLES
    pc,                 \* position in internal_solve_pounders
    args,               \* the arguments of the call
    history,
    accepted_index, x_accepted,
    delta, delta_old,
    valid,
    niter,
    result_sub,         \* result of solve_subproblem: [x, criterion]
    rho,
    accept,             \* whether the branch of the acceptance test was taken
    residual_model, main_model,
    model_indices, n_modelpoints,
    last_model_indices, n_last_modelpoints,
    gradient_norm, gradient_norm_initial,
    same_model_used,
    critval_accepted,
    converged, convergence_reason,
    result_dict,
    sub                 \* the running call of a sub-solver: arguments and locals

vars == << pc, args, history, accepted_index, x_accepted, delta, delta_old,
           valid, niter, result_sub, rho, accept, residual_model, main_model,
           model_indices, n_modelpoints, last_model_indices,
           n_last_modelpoints, gradient_norm, gradient_norm_initial,
           same_model_used, critval_accepted, converged, convergence_reason,
           result_dict, sub >>

(***************************************************************************)
(* Arguments of internal_solve_pounders                                    *)
(***************************************************************************)
Call(b, d, t, c) ==
    [x0 |-> 0, lower_bounds |-> b[1], upper_bounds |-> b[2],
     delta_min |-> d[1], delta |-> d[2], delta_max |-> d[3],
     gtol_abs |-> t[1], gtol_rel |-> t[2], gtol_scaled |-> t[3],
     c2 |-> c, maxiter |-> MaxMaxiter]

\* the calls explored: each argument is varied over its values around one
\* call without bounds, with the default tolerances and c2
Calls ==
    { Call(b, <<1, 1, 2>>, <<0, 0, 0>>, 10) : b \in Bounds }
    \cup { Call(<<None, None>>, d, <<0, 0, 0>>, c) : d \in Radii, c \in C2Values }
    \cup { Call(<<None, None>>, <<1, 1, 2>>, t, 10) : t \in Tolerances }

NoShift == [num |-> 0, den |-> 1]
NoModel == [intercepts |-> 0, fit |-> -1, shift |-> NoShift]
NoRho == [kind |-> "nan", num |-> 0, den |-> 1]
NoResult == [solution_x |-> 0, solution_criterion |-> 0, n_iterations |-> 0,
             success |-> FALSE, message |-> ""]
zeros == [k \in 1..n_maxinterp |-> 0]
\* no sub-solver is running
NoCall == [pc |-> "idle"]

Init ==
    /\ pc = "start"
    /\ args \in Calls
    /\ history = << >>
    /\ accepted_index = 0
    /\ x_accepted = 0
    /\ delta = args.delta
    /\ delta_old = args.delta
    /\ valid = TRUE
    /\ niter = 0
    /\ result_sub = [x |-> 0, criterion |-> [v |-> 0, nz |-> FALSE]]
    /\ rho = NoRho
    /\ accept = FALSE
    /\ residual_model = NoModel
    /\ main_model = NoModel
    /\ model_indices = zeros
    /\ n_modelpoints = 0
    /\ last_model_indices = zeros
    /\ n_last_modelpoints = 0
    /\ gradient_norm = 0
    /\ gradient_norm_initial = 0
    /\ same_model_used = FALSE
    /\ critval_accepted = Float(0)
    /\ converged = FALSE
    /\ convergence_reason = ""
    /\ result_dict = NoResult
    /\ sub = NoCall

(***************************************************************************)
(* Lines 244-282: the check of the start point and the first n + 1         *)
(* evaluations                                                             *)
(***************************************************************************)
\* the condition of the ValueError "Starting points + delta > upper bounds."
StartExceedsUpperBounds(a) ==
    /\ a.lower_bounds # None /\ a.upper_bounds # None
    /\ \E i \in 1..n : a.x0 + a.delta - a.upper_bounds[i] > 0

\* xs = [x0, x0 + delta * e_0, ..., x0 + delta * e_(n-1)]
InitialPoints(a) == << a.x0 >> \o [i \in 1..n |-> a.x0 + a.delta]

RaiseAtStart ==
    /\ pc = "start"
    /\ StartExceedsUpperBounds(args)
    /\ pc' = "raised"
    /\ UNCHANGED << sub, args, history, accepted_index, x_accepted, delta,
                    delta_old, valid, niter, result_sub, rho, accept,
                    residual_model, main_model, model_indices, n_modelpoints,
                    last_model_indices, n_last_modelpoints, gradient_norm,
                    gradient_norm_initial, same_model_used, critval_accepted,
                    converged, convergence_reason, result_dict >>

EvaluateInitialPoints ==
    /\ pc = "start"
    /\ ~StartExceedsUpperBounds(args)
    /\ \E residuals \in [1..(n + 1) -> ResidualValues], g \in GradientNorms :
         LET h == add_entries(history, InitialPoints(args), residuals) IN
         /\ history' = h
         /\ accepted_index' = get_best_index(h)
         /\ residual_model' = create_initial_residual_model(h, get_best_index(h))
         /\ main_model' = create_main_from_residual_model(residual_model')
         /\ x_accepted' = get_best_x(h)
         /\ gradient_norm_initial' = g
    /\ valid' = TRUE
    /\ n_modelpoints' = n + 1
    /\ last_model_indices' = zeros
    /\ converged' = FALSE
    /\ convergence_reason' = "Continue iterating."
    /\ niter' = 0
    /\ pc' = "solve"
    /\ UNCHANGED << sub, args, delta, delta_old, result_sub, rho, accept,
                    model_indices, n_last_modelpoints, gradient_norm,
                    same_model_used, critval_accepted, result_dict >>

(***************************************************************************)
(* Lines 285-312: subproblem, evaluation of the candidate, rho             *)
(***************************************************************************)
InBounds(a, x) ==
    /\ a.lower_bounds # None => \A i \in 1..n : a.lower_bounds[i] <= x
    /\ a.upper_bounds # None => \A i \in 1..n : x <= a.upper_bounds[i]

\* the results solve_subproblem may return: a step of the unit ball that
\* keeps the candidate inside the bounds, and the model criterion there
\* (the model criterion of the zero step is 0)
solve_subproblem(a, x_candidate, d) ==
    LET all == { [x |-> s, criterion |-> c] : s \in SubSteps, c \in SubCriteria }
        results == { r \in all : r.x = 0 => r.criterion = [v |-> 0, nz |-> FALSE] }
        feasible == { r \in results : InBounds(a, x_candidate + r.x * d) }
    IN  IF feasible = {} THEN results ELSE feasible

\* x_candidate = x_accepted + result_sub["x"] * delta
CandidatePoint(x, step, d) == x + step * d

\* the ratio the other way round: model reduction over true reduction
ComputeRhoInverted(h, index, result) ==
    LET true_reduction == get_critvals(h, index) - get_critvals(h, Len(h) - 1)
    IN  Divide(-result.criterion.v, [v |-> true_reduction, nz |-> FALSE])

\* rho = np.divide(predicted_reduction, actual_reduction)
ComputeRho(h, index, result) ==
    LET predicted_reduction == get_critvals(h, index) - get_critvals(h, Len(h) - 1)
        actual_reduction == Negate(result.criterion)
    IN  Divide(predicted_reduction, actual_reduction)

\* the candidate written over the newest record instead of appended
RecordCandidateOverLast(h, x_candidate, residuals_candidate) ==
    [h EXCEPT ![Len(h)] = [x |-> x_candidate, residuals |-> residuals_candidate]]

\* history.add_entries(x_candidate, residuals_candidate)
RecordCandidate(h, x_candidate, residuals_candidate) ==
    add_entries(h, << x_candidate >>, << residuals_candidate >>)

SolveSubproblemAndEvaluate ==
    /\ pc = "solve"
    /\ \E result \in solve_subproblem(args, x_accepted, delta) :
         LET x_candidate == CandidatePoint(x_accepted, result.x, delta) IN
         /\ Abs(x_candidate) <= MaxPos
         /\ \E residuals_candidate \in criterion(history, x_candidate) :
              /\ history' = RecordCandidate(history, x_candidate, residuals_candidate)
              /\ result_sub' = result
              /\ rho' = ComputeRho(history', accepted_index, result)
    /\ pc' = "accept"
    /\ UNCHANGED << sub, args, accepted_index, x_accepted, delta, delta_old, valid,
                    niter, accept, residual_model, main_model, model_indices,
                    n_modelpoints, last_model_indices, n_last_modelpoints,
                    gradient_norm, gradient_norm_initial, same_model_used,
                    critval_accepted, converged, convergence_reason,
                    result_dict >>

(***************************************************************************)
(* Lines 314-330: the acceptance test                                      *)
(***************************************************************************)
\* the test without the validity of the model
AcceptanceConditionIgnoringValid(r, model_is_valid) ==
    GreaterEqual(r, eta1) \/ Greater(r, eta0)

\* (rho >= eta1) or (rho > eta0 and valid is True)
AcceptanceCondition(r, model_is_valid) ==
    GreaterEqual(r, eta1) \/ (Greater(r, eta0) /\ model_is_valid)

\* the index of the candidate, the newest entry of the history
index_of_candidate(h) == Len(h) - 1
\* line 330: accepted_index = history.get_best_index()
index_accepted(h) == get_best_index(h)

AcceptanceTest ==
    /\ pc = "accept"
    /\ IF AcceptanceCondition(rho, valid)
         THEN LET x_candidate ==
                      get_centered_xs(history, get_best_x(history), delta,
                                      Len(history) - 1)
                  rm == [residual_model EXCEPT
                           !.intercepts = get_residuals(history, accepted_index)]
              IN  /\ residual_model' =
                       update_residual_model_with_new_accepted_x(rm, x_candidate)
                  /\ main_model' =
                       update_main_model_with_new_accepted_x(main_model, x_candidate)
                  /\ x_accepted' = get_best_x(history)
                  /\ accepted_index' = index_accepted(history)
                  /\ accept' = TRUE
         ELSE /\ UNCHANGED << residual_model, main_model, x_accepted,
                              accepted_index >>
              /\ accept' = FALSE
    /\ critval_accepted' = Float(get_critvals(history, accepted_index'))
    /\ pc' = "improve"
    /\ UNCHANGED << sub, args, history, delta, delta_old, valid, niter, result_sub,
                    rho, model_indices, n_modelpoints, last_model_indices,
                    n_last_modelpoints, gradient_norm, gradient_norm_initial,
                    same_model_used, converged, convergence_reason,
                    result_dict >>

(***************************************************************************)
(* Geometry of the sample set (pounders_auxiliary), for n = 1              *)
(***************************************************************************)
\* model_indices[position] = value, position counted from 0 as in the code
SetIndex(indices, position, value) == [indices EXCEPT ![position + 1] = value]

\* Walks the history from the newest point to the oldest and takes the
\* points within c * delta of x_accepted that do not coincide with it,
\* until n points are in the model.
find_affine_points(h, x, d, c, indices, n_points) ==
    LET eligible == { i \in 0..(Len(h) - 1) :
                        /\ Abs(get_xs(h, i) - x) <= c * d
                        /\ get_xs(h, i) # x }
        newest == CHOOSE i \in eligible : \A j \in eligible : j <= i
    IN  IF n_points < n /\ eligible # {}
          THEN [model_indices |-> SetIndex(indices, n_points, newest),
                n_modelpoints |-> n_points + 1]
          ELSE [model_indices |-> indices, n_modelpoints |-> n_points]

\* np.median of lower bound, point and upper bound, when both are given
ProjectOnBounds(a, x) ==
    IF a.lower_bounds # None /\ a.upper_bounds # None
      THEN Max(a.lower_bounds[1], Min(x, a.upper_bounds[1]))
      ELSE x

\* The points add_geomtery_points_to_make_main_model_fully_linear may
\* evaluate: x_accepted moved by delta along the missing direction, in the
\* sense the main model's gradient decides, projected on the bounds.
GeometryPoints(a, x, d) ==
    { ProjectOnBounds(a, x + sense * d) : sense \in {-1, 1} }

(***************************************************************************)
(* Lines 336-372: completing a model that is not valid                     *)
(***************************************************************************)
ImproveModel ==
    /\ pc = "improve"
    /\ IF valid = FALSE
         THEN LET found == find_affine_points(history, x_accepted, delta, c1,
                                              model_indices, 0)
              IN  IF found.n_modelpoints < n
                    THEN \E x_new \in GeometryPoints(args, x_accepted, delta) :
                         \E r \in criterion(history, x_new) :
                           /\ Abs(x_new) <= MaxPos
                           /\ history' = add_entries(history, << x_new >>, << r >>)
                           /\ model_indices' =
                                SetIndex(found.model_indices, found.n_modelpoints,
                                         get_n_fun(history))
                           /\ n_modelpoints' = n
                    ELSE /\ model_indices' = found.model_indices
                         /\ n_modelpoints' = found.n_modelpoints
                         /\ UNCHANGED history
         ELSE UNCHANGED << history, model_indices, n_modelpoints >>
    /\ pc' = "radius"
    /\ UNCHANGED << sub, args, accepted_index, x_accepted, delta, delta_old, valid,
                    niter, result_sub, rho, accept, residual_model, main_model,
                    last_model_indices, n_last_modelpoints, gradient_norm,
                    gradient_norm_initial, same_model_used, critval_accepted,
                    converged, convergence_reason, result_dict >>

(***************************************************************************)
(* Lines 374-386: the radius update                                        *)
(***************************************************************************)
\* delta * gamma for a factor gamma = num/den, clipped from below / above
ShrinkTo(d, gamma, lowest) ==
    IF d * gamma.num >= lowest * gamma.den THEN (d * gamma.num) \div gamma.den
                                           ELSE lowest
GrowTo(d, gamma, highest) ==
    IF d * gamma.num <= highest * gamma.den THEN (d * gamma.num) \div gamma.den
                                            ELSE highest

\* the update without the cut at delta_min and delta_max
update_trustregion_radius_unclipped(result_subproblem, r, model_is_valid, d, delta_min, delta_max) ==
    LET norm_x_sub == Abs(result_subproblem.x) IN
    IF GreaterEqual(r, eta1) /\ 2 * norm_x_sub > d
      THEN (d * gamma1.num) \div gamma1.den
      ELSE IF model_is_valid THEN (d * gamma0.num) \div gamma0.den
                             ELSE d

\* grow by gamma1 after a very successful step that is longer than half
\* the radius, shrink by gamma0 after any other step of a valid model
update_trustregion_radius(result_subproblem, r, model_is_valid, d, delta_min, delta_max) ==
    LET norm_x_sub == Abs(result_subproblem.x) IN
    IF GreaterEqual(r, eta1) /\ 2 * norm_x_sub > d
      THEN GrowTo(d, gamma1, delta_max)
      ELSE IF model_is_valid THEN ShrinkTo(d, gamma0, delta_min)
                             ELSE d

\* the call of lines 375-386
UpdatedRadius(a, result_subproblem, r, model_is_valid, d) ==
    update_trustregion_radius(result_subproblem, r, model_is_valid, d,
                              a.delta_min, a.delta_max)

UpdateRadius ==
    /\ pc = "radius"
    /\ delta_old' = delta
    /\ delta' = UpdatedRadius(args, result_sub, rho, valid, delta)
    /\ pc' = "points"
    /\ UNCHANGED << sub, args, history, accepted_index, x_accepted, valid, niter,
                    result_sub, rho, accept, residual_model, main_model,
                    model_indices, n_modelpoints, last_model_indices,
                    n_last_modelpoints, gradient_norm, gradient_norm_initial,
                    same_model_used, critval_accepted, converged,
                    convergence_reason, result_dict >>

(***************************************************************************)
(* Lines 388-443: the search for model points at the new radius            *)
(***************************************************************************)
\* the model flagged valid also when the first search finds fewer points
found_all_model_points_or_fewer(n_points) == n_points <= n
\* lines 407-410: if n_modelpoints == n
found_all_model_points(n_points) == n_points = n

FindModelPoints ==
    /\ pc = "points"
    /\ LET first == find_affine_points(history, x_accepted, delta, c1,
                                       model_indices, 0)
       IN  IF found_all_model_points(first.n_modelpoints)
             THEN /\ valid' = TRUE
                  /\ model_indices' = first.model_indices
                  /\ n_modelpoints' = first.n_modelpoints
                  /\ UNCHANGED history
             ELSE /\ valid' = FALSE
                  /\ LET second == find_affine_points(
                                       history, x_accepted, delta, args.c2,
                                       first.model_indices, first.n_modelpoints)
                     IN  /\ n_modelpoints' = second.n_modelpoints
                         /\ IF second.n_modelpoints < n
                              THEN \E x_new \in GeometryPoints(args, x_accepted, delta) :
                                   \E r \in criterion(history, x_new) :
                                     /\ Abs(x_new) <= MaxPos
                                     /\ history' =
                                          add_entries(history, << x_new >>, << r >>)
                                     /\ model_indices' =
                                          SetIndex(second.model_indices,
                                                   second.n_modelpoints,
                                                   get_n_fun(history))
                              ELSE /\ model_indices' = second.model_indices
                                   /\ UNCHANGED history
    /\ pc' = "build"
    /\ UNCHANGED << sub, args, accepted_index, x_accepted, delta, delta_old, niter,
                    result_sub, rho, accept, residual_model, main_model,
                    last_model_indices, n_last_modelpoints, gradient_norm,
                    gradient_norm_initial, same_model_used, critval_accepted,
                    converged, convergence_reason, result_dict >>

(***************************************************************************)
(* Lines 445-511: the model is fitted to the points found                  *)
(***************************************************************************)
\* model_indices[1 : n_modelpoints + 1] = model_indices[:n_modelpoints]
\* model_indices[0] = accepted_index
PutAcceptedIndexFirst(indices, n_points, index) ==
    [k \in 1..n_maxinterp |->
        IF k = 1 THEN index
        ELSE IF k - 1 <= n_points THEN indices[k - 1] ELSE indices[k]]

\* get_interpolation_matrices_residual_model may take one more point of
\* the history within c2 * delta into the model, up to n_maxinterp points
get_interpolation_matrices_residual_model(h, x, indices, d, c, n_points) ==
    LET used == { indices[k] : k \in 1..n_points }
        eligible == { i \in 0..(Len(h) - 1) :
                        Abs(get_xs(h, i) - x) <= c * d /\ i \notin used }
        newest == CHOOSE i \in eligible : \A j \in eligible : j <= i
    IN  { [model_indices |-> indices, n_modelpoints |-> n_points] }
        \cup
        IF n_points < n_maxinterp /\ eligible # {}
          THEN { [model_indices |-> SetIndex(indices, n_points, newest),
                  n_modelpoints |-> n_points + 1] }
          ELSE {}

\* the model is the same as the last one if it has the same number of
\* points and the same indices
get_last_model_indices_and_check_for_repeated_model(indices, last_indices, n_points, n_last_points) ==
    [last_model_indices |->
        [k \in 1..n_maxinterp |->
            IF k <= n_points THEN indices[k] ELSE last_indices[k]],
     n_last_modelpoints |-> n_points,
     same_model_used |->
        /\ n_points = n_last_points
        /\ \A k \in 1..n_points : indices[k] = last_indices[k]]

BuildModel ==
    /\ pc = "build"
    /\ \E built \in get_interpolation_matrices_residual_model(
                       history, x_accepted,
                       PutAcceptedIndexFirst(model_indices, n_modelpoints,
                                             accepted_index),
                       delta, args.c2, n_modelpoints + 1) :
         LET last == get_last_model_indices_and_check_for_repeated_model(
                         built.model_indices, last_model_indices,
                         built.n_modelpoints, n_last_modelpoints)
         IN  /\ model_indices' = built.model_indices
             /\ n_modelpoints' = built.n_modelpoints
             /\ last_model_indices' = last.last_model_indices
             /\ n_last_modelpoints' = last.n_last_modelpoints
             /\ same_model_used' = last.same_model_used
    /\ residual_model' =
         [intercepts |-> get_residuals(history, accepted_index),
          fit |-> niter + 1, shift |-> NoShift]
    /\ main_model' = create_main_from_residual_model(residual_model')
    /\ gradient_norm' \in GradientNorms
    /\ pc' = "check"
    /\ UNCHANGED << sub, args, history, accepted_index, x_accepted, delta, delta_old,
                    valid, niter, result_sub, rho, accept,
                    gradient_norm_initial, critval_accepted, converged,
                    convergence_reason, result_dict >>

(***************************************************************************)
(* Lines 548-598: _check_for_convergence                                   *)
(***************************************************************************)
ReasonIdentical == "Identical model used in successive iterations."
ReasonAbsolute == "Norm of the gradient is less than absolute_gradient_tolerance."
ReasonRelative ==
    "Norm of the gradient relative to the criterion value is less than relative_gradient_tolerance."
ReasonScaled ==
    "Norm of the gradient divided by norm of the gradient at the initial parameters is less than scaled_gradient_tolerance."
ReasonMinusInfinity == "Criterion value is negative infinity."
ReasonMaxiter == "Maximum number of iterations reached."

\* critval != 0 and abs(gradient_norm / critval) < gtol_rel
RelativeToleranceReached(g, critval, gtol_rel) ==
    IF critval.neginf THEN 0 < gtol_rel
    ELSE critval.v # 0 /\ Abs(g) < gtol_rel * Abs(critval.v)

\* the iteration cap tested before the convergence criteria
_check_for_convergence_cap_first(g, g_initial, critval, d, d_old, same_model, conv, reason, it, gtol_abs, gtol_rel, gtol_scaled, maxiter) ==
    IF it = maxiter
      THEN [converged |-> conv, reason |-> ReasonMaxiter]
    ELSE IF same_model /\ d = d_old
      THEN [converged |-> TRUE, reason |-> ReasonIdentical]
    ELSE IF g < gtol_abs
      THEN [converged |-> TRUE, reason |-> ReasonAbsolute]
    ELSE IF RelativeToleranceReached(g, critval, gtol_rel)
      THEN [converged |-> TRUE, reason |-> ReasonRelative]
    ELSE IF g_initial # 0 /\ g < gtol_scaled * g_initial
      THEN [converged |-> TRUE, reason |-> ReasonScaled]
    ELSE IF g_initial # 0 /\ g = 0 /\ gtol_scaled = 0
      THEN [converged |-> TRUE, reason |-> ReasonScaled]
    ELSE IF critval.neginf
      THEN [converged |-> TRUE, reason |-> ReasonMinusInfinity]
    ELSE [converged |-> conv, reason |-> reason]

\* the iteration cap reported as a convergence
_check_for_convergence_cap_converges(g, g_initial, critval, d, d_old, same_model, conv, reason, it, gtol_abs, gtol_rel, gtol_scaled, maxiter) ==
    IF same_model /\ d = d_old
      THEN [converged |-> TRUE, reason |-> ReasonIdentical]
    ELSE IF g < gtol_abs
      THEN [converged |-> TRUE, reason |-> ReasonAbsolute]
    ELSE IF RelativeToleranceReached(g, critval, gtol_rel)
      THEN [converged |-> TRUE, reason |-> ReasonRelative]
    ELSE IF g_initial # 0 /\ g < gtol_scaled * g_initial
      THEN [converged |-> TRUE, reason |-> ReasonScaled]
    ELSE IF g_initial # 0 /\ g = 0 /\ gtol_scaled = 0
      THEN [converged |-> TRUE, reason |-> ReasonScaled]
    ELSE IF critval.neginf
      THEN [converged |-> TRUE, reason |-> ReasonMinusInfinity]
    ELSE IF it = maxiter
      THEN [converged |-> TRUE, reason |-> ReasonMaxiter]
    ELSE [converged |-> conv, reason |-> reason]

_check_for_convergence(g, g_initial, critval, d, d_old, same_model, conv, reason, it, gtol_abs, gtol_rel, gtol_scaled, maxiter) ==
    IF same_model /\ d = d_old
      THEN [converged |-> TRUE, reason |-> ReasonIdentical]
    ELSE IF g < gtol_abs
      THEN [converged |-> TRUE, reason |-> ReasonAbsolute]
    ELSE IF RelativeToleranceReached(g, critval, gtol_rel)
      THEN [converged |-> TRUE, reason |-> ReasonRelative]
    ELSE IF g_initial # 0 /\ g < gtol_scaled * g_initial
      THEN [converged |-> TRUE, reason |-> ReasonScaled]
    ELSE IF g_initial # 0 /\ g = 0 /\ gtol_scaled = 0
      THEN [converged |-> TRUE, reason |-> ReasonScaled]
    ELSE IF critval.neginf
      THEN [converged |-> TRUE, reason |-> ReasonMinusInfinity]
    ELSE IF it = maxiter
      THEN [converged |-> conv, reason |-> ReasonMaxiter]
    ELSE [converged |-> conv, reason |-> reason]

\* for niter in range(maxiter + 1)
IterationRange(maxiter) == 0..maxiter

(***************************************************************************)
(* Lines 513-530: the convergence check that ends the iteration            *)
(***************************************************************************)
CheckConvergence ==
    /\ pc = "check"
    /\ LET checked == _check_for_convergence(
                          gradient_norm, gradient_norm_initial,
                          critval_accepted, delta, delta_old, same_model_used,
                          converged, convergence_reason, niter, args.gtol_abs,
                          args.gtol_rel, args.gtol_scaled, args.maxiter)
       IN  /\ converged' = checked.converged
           /\ convergence_reason' = checked.reason
           /\ IF checked.converged = TRUE
                THEN pc' = "return" /\ UNCHANGED niter
                ELSE IF niter + 1 \in IterationRange(args.maxiter)
                       THEN pc' = "solve" /\ niter' = niter + 1
                       ELSE pc' = "return" /\ UNCHANGED niter
    /\ UNCHANGED << sub, args, history, accepted_index, x_accepted, delta, delta_old,
                    valid, result_sub, rho, accept, residual_model, main_model,
                    model_indices, n_modelpoints, last_model_indices,
                    n_last_modelpoints, gradient_norm, gradient_norm_initial,
                    same_model_used, critval_accepted, result_dict >>

(***************************************************************************)
(* Lines 532-545: the result                                               *)
(***************************************************************************)
ResultDict(h, index, it, conv, reason) ==
    [solution_x |-> get_xs(h, index),
     solution_criterion |-> get_best_residuals(h),
     n_iterations |-> it,
     success |-> conv,
     message |-> reason]

Return ==
    /\ pc = "return"
    /\ result_dict' = ResultDict(history, accepted_index, niter, converged,
                                 convergence_reason)
    /\ pc' = "done"
    /\ UNCHANGED << sub, args, history, accepted_index, x_accepted, delta, delta_old,
                    valid, niter, result_sub, rho, accept, residual_model,
                    main_model, model_indices, n_modelpoints,
                    last_model_indices, n_last_modelpoints, gradient_norm,
                    gradient_norm_initial, same_model_used, critval_accepted,
                    converged, convergence_reason >>

Next ==
    \/ RaiseAtStart
    \/ EvaluateInitialPoints
    \/ SolveSubproblemAndEvaluate
    \/ AcceptanceTest
    \/ ImproveModel
    \/ UpdateRadius
    \/ FindModelPoints
    \/ BuildModel
    \/ CheckConvergence
    \/ Return

Spec == Init /\ [][Next]_vars

(***************************************************************************)
(* _check_for_convergence as a function of its arguments: every            *)
(* combination of the arguments below is checked once and the result       *)
(* returned.                                                               *)
(***************************************************************************)
CriterionValues == { Float(0), Float(1), NegInf }

InitCheck ==
    /\ pc = "check"
    /\ args \in { Call(<<None, None>>, d, t, 10) : d \in Radii, t \in Tolerances }
    /\ history = << [x |-> 0, residuals |-> 1] >>
    /\ accepted_index = 0
    /\ x_accepted = 0
    /\ delta \in {1, 2}
    /\ delta_old = 1
    /\ valid = TRUE
    /\ niter \in IterationRange(args.maxiter)
    /\ result_sub = [x |-> 0, criterion |-> [v |-> 0, nz |-> FALSE]]
    /\ rho = NoRho
    /\ accept = FALSE
    /\ residual_model = NoModel
    /\ main_model = NoModel
    /\ model_indices = zeros
    /\ n_modelpoints = 0
    /\ last_model_indices = zeros
    /\ n_last_modelpoints = 0
    /\ gradient_norm \in GradientNorms
    /\ gradient_norm_initial \in GradientNorms
    /\ same_model_used \in BOOLEAN
    /\ critval_accepted \in CriterionValues
    /\ converged = FALSE
    /\ convergence_reason = "Continue iterating."
    /\ result_dict = NoResult
    /\ sub = NoCall

NextCheck ==
    \/ CheckConvergence
    \/ Return

SpecCheck == InitCheck /\ [][NextCheck]_vars

(***************************************************************************)
(* The sub-solvers are checked on their own: the driver is idle and sub    *)
(* holds the call.                                                         *)
(***************************************************************************)
driver_vars == << pc, args, history, accepted_index, x_accepted, delta, delta_old, valid, niter, result_sub, rho, accept, residual_model, main_model, model_indices, n_modelpoints, last_model_indices, n_last_modelpoints, gradient_norm, gradient_norm_initial, same_model_used, critval_accepted, converged, convergence_reason, result_dict >>

DriverIdle ==
    /\ pc = "done"
    /\ args = Call(<<None, None>>, <<1, 1, 2>>, <<0, 0, 0>>, 10)
    /\ history = << >>
    /\ accepted_index = 0
    /\ x_accepted = 0
    /\ delta = 1
    /\ delta_old = 1
    /\ valid = TRUE
    /\ niter = 0
    /\ result_sub = [x |-> 0, criterion |-> [v |-> 0, nz |-> FALSE]]
    /\ rho = NoRho
    /\ accept = FALSE
    /\ residual_model = NoModel
    /\ main_model = NoModel
    /\ model_indices = zeros
    /\ n_modelpoints = 0
    /\ last_model_indices = zeros
    /\ n_last_modelpoints = 0
    /\ gradient_norm = 0
    /\ gradient_norm_initial = 0
    /\ same_model_used = FALSE
    /\ critval_accepted = Float(0)
    /\ converged = FALSE
    /\ convergence_reason = "Continue iterating."
    /\ result_dict = NoResult

(***************************************************************************)
(* Floats of the sub-solvers: multiples of 1/Scale.  Sums and differences  *)
(* are exact, products, quotients and square roots are rounded down to the *)
(* grid.                                                                   *)
(***************************************************************************)
fmul(a, b) == (a * b) \div Scale
fdiv(a, b) == IF b > 0 THEN (a * Scale) \div b ELSE (-(a * Scale)) \div (-b)

RECURSIVE isqrt(_, _, _)
isqrt(k, lo, hi) ==
    IF lo = hi THEN lo
    ELSE LET mid == (lo + hi + 1) \div 2
         IN  IF mid * mid <= k THEN isqrt(k, mid, hi) ELSE isqrt(k, lo, mid - 1)
fsqrt(a) == isqrt(a * Scale, 0, Min(a * Scale, 46340))

RECURSIVE dot_upto(_, _, _)
dot_upto(a, b, k) == IF k = 0 THEN 0 ELSE dot_upto(a, b, k - 1) + fmul(a[k], b[k])
dot(a, b) == dot_upto(a, b, Len(a))
norm(a) == fsqrt(dot(a, a))

(***************************************************************************)
(* linear_subsolvers.py: minimize_trsbox_linear                            *)
(***************************************************************************)
_get_distance_to_trustregion_boundary(x0, direction, radius, zt) ==
    LET g_dot_x0 == dot(direction, x0)
        g_sumsq == dot(direction, direction)
        x0_sumsq == dot(x0, x0)
    IN  IF fsqrt(g_sumsq) < zt THEN 0
        ELSE fdiv(fsqrt(Max(0, fmul(g_dot_x0, g_dot_x0) + fmul(g_sumsq, fmul(radius, radius) - x0_sumsq))) - g_dot_x0, g_sumsq)

_take_unconstrained_step_up_to_boundary(x_candidate, direction, trustregion_radius, zt) ==
    LET step_size_unconstr == _get_distance_to_trustregion_boundary(x_candidate, direction, trustregion_radius, zt)
    IN  [i \in 1..Len(x_candidate) |-> x_candidate[i] + fmul(step_size_unconstr, direction[i])]

\* the while loop of _find_next_active_bound: index_active is item k of the
\* iterator; a StopIteration of the inner next() is caught
RECURSIVE next_active_bound_from(_, _, _, _, _)
next_active_bound_from(x_candidate_unconstr, lower_bounds, upper_bounds, active_directions, k) ==
    LET index_active == active_directions[k]
    IN  IF x_candidate_unconstr[index_active] >= upper_bounds[index_active]
          THEN [raised |-> FALSE, active_bound |-> << upper_bounds[index_active] >>, index_active |-> index_active, consumed |-> k]
        ELSE IF x_candidate_unconstr[index_active] <= lower_bounds[index_active]
          THEN [raised |-> FALSE, active_bound |-> << lower_bounds[index_active] >>, index_active |-> index_active, consumed |-> k]
        ELSE IF k = Len(active_directions)
          THEN [raised |-> FALSE, active_bound |-> None, index_active |-> index_active, consumed |-> k]
        ELSE next_active_bound_from(x_candidate_unconstr, lower_bounds, upper_bounds, active_directions, k + 1)

\* set_active_directions is the iterator over active_directions of which
\* consumed items have been taken; the first next() is not guarded
_find_next_active_bound(x_candidate_unconstr, lower_bounds, upper_bounds, active_directions, consumed) ==
    IF consumed = Len(active_directions)
      THEN [raised |-> TRUE, active_bound |-> None, index_active |-> 0, consumed |-> consumed]
      ELSE next_active_bound_from(x_candidate_unconstr, lower_bounds, upper_bounds, active_directions, consumed + 1)

_take_constrained_step_up_to_boundary(x_candidate, direction, active_bound, index_bound_active) ==
    LET step_size_constr == fdiv(active_bound - x_candidate[index_bound_active], direction[index_bound_active])
    IN  [x_candidate |-> [i \in 1..Len(x_candidate) |-> IF i = index_bound_active THEN active_bound ELSE x_candidate[i] + fmul(step_size_constr, direction[i])],
         direction |-> [direction EXCEPT ![index_bound_active] = 0]]

\* the indices 1..k of d that are not constant directions, in order
RECURSIVE setdiff1d(_, _, _)
setdiff1d(d, zt, k) ==
    IF k = 0 THEN << >>
    ELSE IF Abs(d[k]) < zt THEN setdiff1d(d, zt, k - 1)
         ELSE Append(setdiff1d(d, zt, k - 1), k)

\* lines 37-50 without the reset of the constant directions of line 47
trsbox_enter_keeping_constant_directions(model_gradient, lower_bounds, upper_bounds, trustregion_radius, zt) ==
    LET m == Len(model_gradient)
    IN  [pc |-> "loop",
         model_gradient |-> model_gradient,
         lower_bounds |-> lower_bounds,
         upper_bounds |-> upper_bounds,
         trustregion_radius |-> trustregion_radius,
         zero_treshold |-> zt,
         lower_bounds_internal |-> [i \in 1..m |-> Min(lower_bounds[i], -zt)],
         upper_bounds_internal |-> [i \in 1..m |-> Max(upper_bounds[i], zt)],
         x_candidate |-> [i \in 1..m |-> 0],
         direction |-> [i \in 1..m |-> -model_gradient[i]],
         active_directions |-> setdiff1d([i \in 1..m |-> -model_gradient[i]], zt, m),
         consumed |-> 0,
         npass |-> 0]
\* lines 37-50: the locals of a call before the loop
trsbox_enter(model_gradient, lower_bounds, upper_bounds, trustregion_radius, zt) ==
    LET m == Len(model_gradient)
    IN  [pc |-> "loop",
         model_gradient |-> model_gradient,
         lower_bounds |-> lower_bounds,
         upper_bounds |-> upper_bounds,
         trustregion_radius |-> trustregion_radius,
         zero_treshold |-> zt,
         lower_bounds_internal |-> [i \in 1..m |-> Min(lower_bounds[i], -zt)],
         upper_bounds_internal |-> [i \in 1..m |-> Max(upper_bounds[i], zt)],
         x_candidate |-> [i \in 1..m |-> 0],
         direction |-> [i \in 1..m |-> IF Abs(-model_gradient[i]) < zt THEN 0 ELSE -model_gradient[i]],
         active_directions |-> setdiff1d([i \in 1..m |-> -model_gradient[i]], zt, m),
         consumed |-> 0,
         npass |-> 0]

\* lines 52-80: one pass of the loop, or the exit from it
trsbox_pass(s) ==
    IF s.npass = Len(s.model_gradient) THEN [s EXCEPT !.pc = "return"]
    ELSE IF norm(s.direction) < s.zero_treshold THEN [s EXCEPT !.pc = "return"]
    ELSE LET x_candidate_unconstr == _take_unconstrained_step_up_to_boundary(s.x_candidate, s.direction, s.trustregion_radius, s.zero_treshold)
             found == _find_next_active_bound(x_candidate_unconstr, s.lower_bounds_internal, s.upper_bounds_internal, s.active_directions, s.consumed)
         IN  IF found.raised
               THEN [s EXCEPT !.pc = "StopIteration", !.npass = @ + 1]
             ELSE IF found.active_bound = None
               THEN [s EXCEPT !.pc = "return", !.x_candidate = x_candidate_unconstr, !.consumed = found.consumed, !.npass = @ + 1]
             ELSE LET step == _take_constrained_step_up_to_boundary(s.x_candidate, s.direction, found.active_bound[1], found.index_active)
                  IN  [s EXCEPT !.x_candidate = step.x_candidate, !.direction = step.direction, !.consumed = found.consumed, !.npass = @ + 1]

RECURSIVE trsbox_run(_)
trsbox_run(s) == IF s.pc = "loop" THEN trsbox_run(trsbox_pass(s)) ELSE s

minimize_trsbox_linear(model_gradient, lower_bounds, upper_bounds, trustregion_radius, zt) ==
    trsbox_run(trsbox_enter(model_gradient, lower_bounds, upper_bounds, trustregion_radius, zt))

\* the calls explored: gradients, bounds with lower <= 0 <= upper, radii
TrsboxGradients == [1..n_trsbox -> {-2 * Scale, -Scale, 0, 1, Scale}]
TrsboxLowerBounds == { [i \in 1..n_trsbox |-> -3 * Scale], [i \in 1..n_trsbox |-> 0], [i \in 1..n_trsbox |-> IF i = 1 THEN -Scale ELSE IF i = 2 THEN 0 ELSE -3 * Scale] }
TrsboxUpperBounds == [1..n_trsbox -> {0, Scale, 3 * Scale}]
TrsboxRadii == {Scale, 2 * Scale}

InitTrsbox ==
    /\ DriverIdle
    /\ sub \in { trsbox_enter(g, l, u, r, zero_treshold) : g \in TrsboxGradients, l \in TrsboxLowerBounds, u \in TrsboxUpperBounds, r \in TrsboxRadii }

TrsboxLoopPass ==
    /\ sub.pc = "loop"
    /\ sub' = trsbox_pass(sub)
    /\ UNCHANGED driver_vars

NextTrsbox == TrsboxLoopPass

SpecTrsbox == InitTrsbox /\ [][NextTrsbox]_vars

(***************************************************************************)
(* linear_subsolvers.py: improve_geomtery_trsbox_linear                    *)
(***************************************************************************)
\* lagrange_polynomial of line 152
lagrange_polynomial(linear_model, x) == Abs(linear_model.constant_term + dot(linear_model.linear_terms, x))

\* lines 154-159: the candidate that is shifted back
choose_lagrange_candidate_strictly(linear_model, x_candidate_min, x_candidate_max) ==
    IF lagrange_polynomial(linear_model, x_candidate_min) > lagrange_polynomial(linear_model, x_candidate_max)
      THEN x_candidate_min ELSE x_candidate_max
choose_lagrange_candidate(linear_model, x_candidate_min, x_candidate_max) ==
    IF lagrange_polynomial(linear_model, x_candidate_min) >= lagrange_polynomial(linear_model, x_candidate_max)
      THEN x_candidate_min ELSE x_candidate_max

shift(v, x_center, sign) == [i \in 1..Len(v) |-> v[i] + sign * x_center[i]]

\* the calls explored
GeometryCenters == { [i \in 1..n_trsbox |-> 0], [i \in 1..n_trsbox |-> IF i = 1 THEN Scale ELSE 0], [i \in 1..n_trsbox |-> 2 * Scale] }
GeometryModels == { [constant_term |-> c, linear_terms |-> g] : c \in {-Scale, 0, Scale}, g \in [1..n_trsbox -> {-Scale, 0, Scale}] }
GeometryBounds == { << [i \in 1..n_trsbox |-> -l * Scale], [i \in 1..n_trsbox |-> u * Scale] >> : l \in {1, 3}, u \in {1, 3} }

InitGeometry ==
    /\ DriverIdle
    /\ sub \in { [pc |-> "check_center", x_center |-> c, linear_model |-> m, lower_bounds |-> b[1], upper_bounds |-> b[2], trustregion_radius |-> r, zero_treshold |-> zero_treshold, x_candidate_min |-> None, x_candidate_max |-> None, x_lagrange |-> None] : c \in GeometryCenters, m \in GeometryModels, b \in GeometryBounds, r \in TrsboxRadii }

\* lines 125-129
GeometryCheckCenter ==
    /\ sub.pc = "check_center"
    /\ IF \E i \in 1..n_trsbox : sub.lower_bounds[i] > sub.x_center[i] + sub.zero_treshold
         THEN sub' = [sub EXCEPT !.pc = "ValueError"]
       ELSE IF \E i \in 1..n_trsbox : sub.x_center[i] - sub.zero_treshold > sub.upper_bounds[i]
         THEN sub' = [sub EXCEPT !.pc = "ValueError"]
       ELSE sub' = [sub EXCEPT !.pc = "minimize"]
    /\ UNCHANGED driver_vars

\* lines 137-143
GeometryMinimize ==
    /\ sub.pc = "minimize"
    /\ LET res == minimize_trsbox_linear(sub.linear_model.linear_terms, shift(sub.lower_bounds, sub.x_center, -1), shift(sub.upper_bounds, sub.x_center, -1), sub.trustregion_radius, sub.zero_treshold)
       IN  IF res.pc = "StopIteration"
             THEN sub' = [sub EXCEPT !.pc = "StopIteration"]
             ELSE sub' = [sub EXCEPT !.pc = "maximize", !.x_candidate_min = res.x_candidate]
    /\ UNCHANGED driver_vars

\* lines 131-133 and 144-150
GeometryMaximize ==
    /\ sub.pc = "maximize"
    /\ LET linear_model_to_maximize == [sub.linear_model EXCEPT !.linear_terms = [i \in 1..n_trsbox |-> -sub.linear_model.linear_terms[i]]]
           res == minimize_trsbox_linear(linear_model_to_maximize.linear_terms, shift(sub.lower_bounds, sub.x_center, -1), shift(sub.upper_bounds, sub.x_center, -1), sub.trustregion_radius, sub.zero_treshold)
       IN  IF res.pc = "StopIteration"
             THEN sub' = [sub EXCEPT !.pc = "StopIteration"]
             ELSE sub' = [sub EXCEPT !.pc = "choose", !.x_candidate_max = res.x_candidate]
    /\ UNCHANGED driver_vars

\* lines 152-161
GeometryChoose ==
    /\ sub.pc = "choose"
    /\ sub' = [sub EXCEPT !.pc = "return", !.x_lagrange = shift(choose_lagrange_candidate(sub.linear_model, sub.x_candidate_min, sub.x_candidate_max), sub.x_center, 1)]
    /\ UNCHANGED driver_vars

NextGeometry ==
    \/ GeometryCheckCenter
    \/ GeometryMinimize
    \/ GeometryMaximize
    \/ GeometryChoose

SpecGeometry == InitGeometry /\ [][NextGeometry]_vars

(***************************************************************************)
(* Exact floats of the quadratic sub-solvers: ratios [n, d] of integers in *)
(* lowest terms, d > 0.  A square root is taken only of the square of a    *)
(* ratio.                                                                  *)
(***************************************************************************)
RECURSIVE gcd(_, _)
gcd(a, b) == IF b = 0 THEN a ELSE gcd(b, a % b)

Q(a, b) ==
    LET lowest_terms(g) == IF b > 0 THEN [n |-> a \div g, d |-> b \div g] ELSE [n |-> (-a) \div g, d |-> (-b) \div g]
    IN  lowest_terms(gcd(Abs(a), Abs(b)))
qadd(x, y) ==
    LET over(g) == Q(x.n * (y.d \div g) + y.n * (x.d \div g), (x.d \div g) * y.d)
    IN  over(gcd(x.d, y.d))
qneg(x) == [n |-> -x.n, d |-> x.d]
qsub(x, y) == qadd(x, qneg(y))
qmul(x, y) ==
    LET crosswise(a, b) == [n |-> a.n * b.n, d |-> a.d * b.d]
    IN  crosswise(Q(x.n, y.d), Q(y.n, x.d))
qdiv(x, y) == qmul(x, Q(y.d, y.n))
qle(x, y) == x.n * y.d <= y.n * x.d
qlt(x, y) == x.n * y.d < y.n * x.d
is_square(k) == k >= 0 /\ isqrt(k, 0, Min(k, 46340)) * isqrt(k, 0, Min(k, 46340)) = k
qsqrt(x) == [n |-> isqrt(x.n, 0, Min(x.n, 46340)), d |-> isqrt(x.d, 0, Min(x.d, 46340))]

RECURSIVE qdot_upto(_, _, _)
qdot_upto(a, b, k) == IF k = 0 THEN Q(0, 1) ELSE qadd(qdot_upto(a, b, k - 1), qmul(a[k], b[k]))
qdot(a, b) == qdot_upto(a, b, Len(a))
\* np.dot(hessian, direction) for a symmetric hessian
qmatvec(hessian, v) == [i \in 1..Len(v) |-> qdot(hessian[i], v)]
\* a + c * b for vectors a, b and a float c
qaxpy(a, c, b) == [i \in 1..Len(a) |-> qadd(a[i], qmul(c, b[i]))]

(***************************************************************************)
(* trustregion_conjugate_gradient.py: minimize_trust_cg                    *)
(***************************************************************************)
\* lines 96-121: math.sqrt raises ValueError for a negative argument and a
\* float64 divided by 0.0 is nan; "inexact" is an irrational root
cg_distance_to_trustregion_boundary(candidate, direction, radius) ==
    LET ss == qdot(candidate, candidate)
        sp == qdot(candidate, direction)
        pp == qdot(direction, direction)
        arg == qadd(qmul(sp, sp), qmul(pp, qsub(qmul(radius, radius), ss)))
    IN  IF arg.n < 0 THEN [kind |-> "ValueError", sigma |-> Q(0, 1)]
        ELSE IF ~(is_square(arg.n) /\ is_square(arg.d)) THEN [kind |-> "inexact", sigma |-> Q(0, 1)]
        ELSE IF pp.n = 0 THEN [kind |-> "nan", sigma |-> Q(0, 1)]
        ELSE [kind |-> "fin", sigma |-> qdiv(qadd(qneg(sp), qsqrt(arg)), pp)]

\* lines 66-93
_update_vectors_for_next_iteration(x_candidate, residual, direction, hessian, alpha) ==
    LET residual_old == residual
        residual_new == qaxpy(residual, alpha, qmatvec(hessian, direction))
        beta == qdiv(qdot(residual_new, residual_new), qdot(residual_old, residual_old))
    IN  [x_candidate |-> qaxpy(x_candidate, alpha, direction),
         residual |-> residual_new,
         direction |-> qaxpy([i \in 1..Len(residual_new) |-> qneg(residual_new[i])], beta, direction)]

\* lines 26-41: the locals of a call before the loop; gnorm_sq is gnorm ** 2
cg_enter(model_gradient, model_hessian, trustregion_radius) ==
    [pc |-> "loop",
     model_gradient |-> model_gradient,
     model_hessian |-> model_hessian,
     trustregion_radius |-> trustregion_radius,
     maxiter |-> 2 * Len(model_gradient),
     residual |-> model_gradient,
     x_candidate |-> [i \in 1..Len(model_gradient) |-> Q(0, 1)],
     direction |-> [i \in 1..Len(model_gradient) |-> qneg(model_gradient[i])],
     gnorm_sq |-> qdot(model_gradient, model_gradient),
     niter |-> 0,
     is_nan |-> FALSE]

\* gnorm > stop_tol = max(abstol, reltol * initial gnorm), lines 29-42,
\* decided on the squares: abstol ** 2 = 1e-16, and reltol ** 2 = 1e-12 times
\* the initial square, are below every positive ratio of integers < 2^31
cg_exceeds_stop_tol(gnorm_sq, gnorm_sq_initial) == gnorm_sq.n > 0 /\ qdiv(gnorm_sq, gnorm_sq_initial).n > 0

\* the condition of the while loop, line 42
cg_continues_whatever_gnorm(s) == s.niter < s.maxiter
cg_continues(s) == cg_exceeds_stop_tol(s.gnorm_sq, qdot(s.model_gradient, s.model_gradient)) /\ s.niter < s.maxiter

\* lines 45-54 for the locals s
cg_square_term(s) == qdot(qmatvec(s.model_hessian, s.direction), s.direction)
cg_alpha(s) == qdiv(qdot(s.residual, s.residual), cg_square_term(s))
cg_leaves_trustregion(s) ==
    \/ cg_square_term(s).n <= 0
    \/ qlt(cg_distance_to_trustregion_boundary(s.x_candidate, s.direction, s.trustregion_radius).sigma, cg_alpha(s))

\* the step of line 55
cg_step_to_boundary_by_alpha(s) ==
    IF cg_square_term(s).n = 0 THEN s.x_candidate ELSE qaxpy(s.x_candidate, cg_alpha(s), s.direction)
cg_step_to_boundary(s) ==
    qaxpy(s.x_candidate, cg_distance_to_trustregion_boundary(s.x_candidate, s.direction, s.trustregion_radius).sigma, s.direction)

\* lines 42-63: one pass of the loop, or the exit from it
cg_pass(s) ==
    IF ~cg_continues(s) THEN [s EXCEPT !.pc = "return"]
    ELSE LET distance_to_boundary == cg_distance_to_trustregion_boundary(s.x_candidate, s.direction, s.trustregion_radius)
         IN  IF distance_to_boundary.kind \in {"ValueError", "inexact"}
               THEN [s EXCEPT !.pc = distance_to_boundary.kind, !.niter = @ + 1]
             ELSE IF distance_to_boundary.kind = "nan"
               THEN [s EXCEPT !.pc = "return", !.niter = @ + 1, !.is_nan = TRUE]
             ELSE IF cg_leaves_trustregion(s)
               THEN [s EXCEPT !.pc = "return", !.niter = @ + 1, !.x_candidate = cg_step_to_boundary(s)]
             ELSE LET new == _update_vectors_for_next_iteration(s.x_candidate, s.residual, s.direction, s.model_hessian, cg_alpha(s))
                  IN  [s EXCEPT !.niter = @ + 1, !.x_candidate = new.x_candidate, !.residual = new.residual, !.direction = new.direction, !.gnorm_sq = qdot(new.residual, new.residual)]

RECURSIVE cg_run(_)
cg_run(s) == IF s.pc = "loop" THEN cg_run(cg_pass(s)) ELSE s

\* the calls explored: those all of whose square roots are rational
CGGradients == [1..n_cg -> {Q(-2, 1), Q(-1, 1), Q(0, 1), Q(1, 1), Q(2, 1)}]
CGHessians == { [i \in 1..n_cg |-> [j \in 1..n_cg |-> IF i = j THEN d[i] ELSE o]] : d \in [1..n_cg -> {Q(-1, 1), Q(0, 1), Q(1, 1), Q(2, 1)}], o \in {Q(0, 1), Q(1, 1)} }
CGRadii == {Q(1, 2), Q(1, 1), Q(4, 1)}
CGCalls == { s \in { cg_enter(g, h, r) : g \in CGGradients, h \in CGHessians, r \in CGRadii } : cg_run(s).pc # "inexact" }

InitCG ==
    /\ DriverIdle
    /\ sub \in CGCalls

CGLoopPass ==
    /\ sub.pc = "loop"
    /\ sub' = cg_pass(sub)
    /\ UNCHANGED driver_vars

NextCG == CGLoopPass

SpecCG == InitCG /\ [][NextCG]_vars

(***************************************************************************)
(* bounded_newton_quadratic_fast.py: get_information_on_active_bounds_fast *)
(***************************************************************************)
\* "i not in xs" followed by xs.append(i)
append_if_new(xs, i) == IF \E k \in 1..Len(xs) : xs[k] = i THEN xs ELSE Append(xs, i)

\* lines 522-539: the body of the loop for index i
classify_index_fixed_not_among_all(info, i, x, gradient_unprojected, lower_bounds, upper_bounds) ==
    IF qle(x[i], lower_bounds[i]) /\ gradient_unprojected[i].n > 0
      THEN [info EXCEPT !.active_all = append_if_new(@, i), !.active_lower = append_if_new(@, i)]
    ELSE IF qle(upper_bounds[i], x[i]) /\ gradient_unprojected[i].n < 0
      THEN [info EXCEPT !.active_all = append_if_new(@, i), !.active_upper = append_if_new(@, i)]
    ELSE IF lower_bounds[i] = upper_bounds[i]
      THEN [info EXCEPT !.active_fixed = append_if_new(@, i)]
    ELSE [info EXCEPT !.inactive = append_if_new(@, i)]
classify_index(info, i, x, gradient_unprojected, lower_bounds, upper_bounds) ==
    IF qle(x[i], lower_bounds[i]) /\ gradient_unprojected[i].n > 0
      THEN [info EXCEPT !.active_all = append_if_new(@, i), !.active_lower = append_if_new(@, i)]
    ELSE IF qle(upper_bounds[i], x[i]) /\ gradient_unprojected[i].n < 0
      THEN [info EXCEPT !.active_all = append_if_new(@, i), !.active_upper = append_if_new(@, i)]
    ELSE IF lower_bounds[i] = upper_bounds[i]
      THEN [info EXCEPT !.active_fixed = append_if_new(@, i), !.active_all = append_if_new(@, i)]
    ELSE [info EXCEPT !.inactive = append_if_new(@, i)]

\* lines 516-521: the loop over the indices 1..k
RECURSIVE active_bounds_upto(_, _, _, _, _)
active_bounds_upto(k, x, gradient_unprojected, lower_bounds, upper_bounds) ==
    IF k = 0 THEN [active_lower |-> << >>, active_upper |-> << >>, active_fixed |-> << >>, active_all |-> << >>, inactive |-> << >>]
    ELSE classify_index(active_bounds_upto(k - 1, x, gradient_unprojected, lower_bounds, upper_bounds), k, x, gradient_unprojected, lower_bounds, upper_bounds)

get_information_on_active_bounds_fast(x, gradient_unprojected, lower_bounds, upper_bounds) ==
    active_bounds_upto(Len(x), x, gradient_unprojected, lower_bounds, upper_bounds)

\* the calls explored
ActiveValues == [1..n_active -> {Q(-1, 1), Q(0, 1), Q(1, 1)}]

InitActive ==
    /\ DriverIdle
    /\ sub \in { [pc |-> "call", x |-> x, gradient_unprojected |-> g, lower_bounds |-> l, upper_bounds |-> u, info |-> None] : x \in ActiveValues, g \in ActiveValues, l \in ActiveValues, u \in ActiveValues }

GetInformationOnActiveBounds ==
    /\ sub.pc = "call"
    /\ sub' = [sub EXCEPT !.pc = "return", !.info = get_information_on_active_bounds_fast(sub.x, sub.gradient_unprojected, sub.lower_bounds, sub.upper_bounds)]
    /\ UNCHANGED driver_vars

NextActive == GetInformationOnActiveBounds

SpecActive == InitActive /\ [][NextActive]_vars

(***************************************************************************)
(* quadratic_subsolvers.py: minimize_gqtpar_quadratic.  The helpers of     *)
(* _trustregion_gqtpar_quadratic return one of the values below.           *)
(***************************************************************************)
\* factorization_info: 0 for a successful factorization
FactorizationInfos == {0, 1}
\* the brackets [lower_bound, candidate, upper_bound] of lambda
Lambdas == { l \in [lower_bound : 0..MaxLambda, candidate : 0..MaxLambda, upper_bound : 0..MaxLambda] : l.lower_bound <= l.candidate /\ l.candidate <= l.upper_bound }
\* candidate points
GqtparCandidates == { <<0>>, <<1>> }

get_initial_guess_for_lambdas == { l \in Lambdas : l.lower_bound = 0 }

\* a failed factorization does not move the bracket downwards
update_lambdas_when_factorization_unsuccessful(lambdas) ==
    { l \in Lambdas : l.lower_bound >= lambdas.lower_bound /\ l.candidate >= lambdas.candidate }

\* the results [x_candidate, already_factorized, lambdas, converged]
find_new_candidate_and_update_parameters(lambdas) ==
    { [x_candidate |-> x, already_factorized |-> a, lambdas |-> l, converged |-> c] : x \in GqtparCandidates, a \in BOOLEAN, l \in {lambdas}, c \in BOOLEAN }

\* the results [x_candidate, lambdas, converged]
check_for_interior_convergence_and_update(x_candidate, lambdas) ==
    { [x_candidate |-> x_candidate, lambdas |-> lambdas, converged |-> c] : c \in BOOLEAN }

\* lines 367-372: the branch of a failed factorization
gqtpar_factorization_unsuccessful_raises(s, info, lambdas_new) ==
    [s EXCEPT !.pc = "LinAlgError", !.factorization_info = info, !.niter = @ + 1]
gqtpar_factorization_unsuccessful(s, info, lambdas_new) ==
    [s EXCEPT !.factorization_info = info, !.already_factorized = FALSE, !.lambdas = lambdas_new, !.niter = @ + 1]

InitGqtpar ==
    /\ DriverIdle
    /\ sub \in { [pc |-> "loop", maxiter |-> m, gradient_norm_exceeds_zero_threshold |-> g, lambdas |-> l, already_factorized |-> FALSE, factorization_info |-> None, x_candidate |-> None, converged |-> FALSE, niter |-> 0, result |-> None] : m \in 1..GqtparMaxiter, g \in BOOLEAN, l \in get_initial_guess_for_lambdas }

\* lines 335-375: one pass of the loop
GqtparIteration ==
    /\ sub.pc = "loop"
    /\ sub.niter < sub.maxiter
    /\ \E info \in (IF sub.already_factorized THEN {sub.factorization_info} ELSE FactorizationInfos) :
         IF info = 0 /\ sub.gradient_norm_exceeds_zero_threshold
           THEN \E r \in find_new_candidate_and_update_parameters(sub.lambdas) :
                  sub' = [sub EXCEPT !.factorization_info = info, !.x_candidate = r.x_candidate, !.already_factorized = r.already_factorized, !.lambdas = r.lambdas, !.converged = r.converged, !.niter = @ + 1, !.pc = IF r.converged THEN "finish" ELSE "loop"]
         ELSE IF info = 0
           THEN IF sub.x_candidate = None
                  THEN sub' = [sub EXCEPT !.factorization_info = info, !.niter = @ + 1, !.pc = "UnboundLocalError"]
                  ELSE \E r \in check_for_interior_convergence_and_update(sub.x_candidate, sub.lambdas) :
                         sub' = [sub EXCEPT !.factorization_info = info, !.already_factorized = FALSE, !.x_candidate = r.x_candidate, !.lambdas = r.lambdas, !.converged = r.converged, !.niter = @ + 1, !.pc = IF r.converged THEN "finish" ELSE "loop"]
         ELSE \E l \in update_lambdas_when_factorization_unsuccessful(sub.lambdas) :
                sub' = gqtpar_factorization_unsuccessful(sub, info, l)
    /\ UNCHANGED driver_vars

\* lines 377-388: after the loop
GqtparReturn ==
    /\ \/ sub.pc = "finish"
       \/ sub.pc = "loop" /\ sub.niter = sub.maxiter
    /\ IF sub.x_candidate = None
         THEN sub' = [sub EXCEPT !.pc = "UnboundLocalError"]
         ELSE sub' = [sub EXCEPT !.pc = "return", !.result = [x |-> sub.x_candidate, n_iterations |-> sub.niter - 1, success |-> sub.converged]]
    /\ UNCHANGED driver_vars

NextGqtpar ==
    \/ GqtparIteration
    \/ GqtparReturn

SpecGqtpar == InitGqtpar /\ [][NextGqtpar]_vars

(***************************************************************************)
(* quadratic_subsolvers.py: minimize_bntr_quadratic, with the helpers of   *)
(* subsolvers/bounded_newton_quadratic_fast.py, in exact floats.  Vectors  *)
(* are sequences of ratios, index arrays are sequences of indices.  The    *)
(* conjugate gradient step is the one of minimize_trust_cg.                *)
(***************************************************************************)
qabs(x) == IF x.n < 0 THEN qneg(x) ELSE x
qmin(x, y) == IF qle(x, y) THEN x ELSE y
qmax(x, y) == IF qle(x, y) THEN y ELSE x
qsign(x) == IF x.n > 0 THEN 1 ELSE IF x.n < 0 THEN -1 ELSE 0
qzeros(k) == [i \in 1..k |-> Q(0, 1)]
qvsub(a, b) == [i \in 1..Len(a) |-> qsub(a[i], b[i])]
is_member(xs, i) == \E k \in 1..Len(xs) : xs[k] = i
position(xs, i) == CHOOSE k \in 1..Len(xs) : xs[k] = i
\* v[indices]
take(v, indices) == [k \in 1..Len(indices) |-> v[indices[k]]]

\* norm_numba, lines 847-857; norm_is_exact tells whether the root is a ratio
norm_is_exact(v) == is_square(qdot(v, v).n) /\ is_square(qdot(v, v).d)
norm_numba(v) == qsqrt(qdot(v, v))

\* lines 31-40 of the fast module and lines 108-121 of quadratic_subsolvers.py.
\* min_radius is 1e-10 and max_radius 1e10 in the source; the ratios of the
\* model cannot hold them, so the radii are clipped to [1, 1000] instead
gradient_descent_options ==
    [default_radius |-> Q(100, 1), min_radius |-> Q(1, 1), max_radius |-> Q(1000, 1),
     theta |-> Q(1, 4), mu1 |-> Q(35, 100), mu2 |-> Q(1, 2),
     gamma1 |-> Q(1, 16), gamma2 |-> Q(1, 2), gamma3 |-> Q(2, 1), gamma4 |-> Q(5, 1)]
options_update_radius ==
    [eta1 |-> Q(1, 10000), eta2 |-> Q(1, 4), eta3 |-> Q(1, 2), eta4 |-> Q(9, 10),
     alpha1 |-> Q(1, 4), alpha2 |-> Q(1, 2), alpha3 |-> Q(1, 1), alpha4 |-> Q(2, 1), alpha5 |-> Q(4, 1),
     min_radius |-> Q(1, 1), max_radius |-> Q(1000, 1), default_radius |-> Q(100, 1)]

\* abs(q) <= EPSILON, line 14: EPSILON = eps ** (2 / 3) is about 3.7e-11,
\* below every nonzero ratio of integers < 2^31
within_EPSILON(q) == q.n = 0
\* abs(q) <= max(1, abs(f_candidate) * EPSILON), lines 475-477: the product
\* is below 1 for every ratio of integers < 2^31
within_one_or_EPSILON(q) == qle(qabs(q), Q(1, 1))

\* lines 791-809
_evaluate_model_criterion(x, gradient, hessian) ==
    qadd(qdot(gradient, x), qmul(Q(1, 2), qdot(qmatvec(hessian, x), x)))
\* lines 812-825
_evaluate_model_gradient(x, linear_terms, square_terms) ==
    [i \in 1..Len(x) |-> qadd(linear_terms[i], qdot(square_terms[i], x))]
\* lines 609-617, bound_tol = 0
apply_lower_bounds_only(x, lower_bounds, upper_bounds) ==
    [i \in 1..Len(x) |-> IF qle(x[i], lower_bounds[i]) THEN lower_bounds[i] ELSE x[i]]
apply_bounds_to_x_candidate_fast(x, lower_bounds, upper_bounds) ==
    [i \in 1..Len(x) |-> IF qle(x[i], lower_bounds[i]) THEN lower_bounds[i]
                         ELSE IF qle(upper_bounds[i], x[i]) THEN upper_bounds[i]
                         ELSE x[i]]
\* lines 620-626
project_gradient_onto_feasible_set(gradient_unprojected, inactive_bounds) ==
    [i \in 1..Len(gradient_unprojected) |-> IF is_member(inactive_bounds, i) THEN gradient_unprojected[i] ELSE Q(0, 1)]
\* lines 549-559
find_hessian_submatrix_where_bounds_inactive_fast(initial_hessian, inactive_bounds) ==
    [r \in 1..Len(inactive_bounds) |-> [c \in 1..Len(inactive_bounds) |-> initial_hessian[inactive_bounds[r]][inactive_bounds[c]]]]
\* lines 828-844
clip_scalar_numba(x, a, b) == qmin(qmax(x, a), b)

\* lines 769-788, by sign: the Fischer-Burmeister function of a and b is 0
\* when both are >= 0 and one is 0, negative when both are positive, and
\* positive otherwise
_get_fischer_burmeister_scalar(sign_a, sign_b) ==
    IF sign_a >= 0 /\ sign_b >= 0 /\ (sign_a = 0 \/ sign_b = 0) THEN 0
    ELSE IF sign_a > 0 /\ sign_b > 0 THEN -1
    ELSE 1
\* lines 753-766: the signs of the direction vector
_get_fischer_burmeister_direction_vector(x, gradient, lower_bounds, upper_bounds) ==
    [i \in 1..Len(x) |->
        IF lower_bounds[i] = upper_bounds[i] THEN qsign(qsub(lower_bounds[i], x[i]))
        ELSE _get_fischer_burmeister_scalar(
                 _get_fischer_burmeister_scalar(qsign(qsub(upper_bounds[i], x[i])), -qsign(gradient[i])),
                 qsign(qsub(x[i], lower_bounds[i])))]

\* lines 562-606.  The tolerances explored are 0 and 1e-8, and a measure
\* that is not 0 is above 1e-8 times the initial norm in the calls explored:
\* a comparison "<" with a tolerance holds iff the measure is 0 and the
\* tolerance is not.  niter is None (<< >>) or << niter >>.
check_for_convergence_fast(x_candidate, f_candidate, gradient_candidate, model_gradient, lower_bounds, upper_bounds, converged_before, reason, niter_or_None, maxiter, gtol_abs, gtol_rel, gtol_scaled) ==
    LET direction_fischer_burmeister == _get_fischer_burmeister_direction_vector(x_candidate, gradient_candidate, lower_bounds, upper_bounds)
        gradient_norm_is_zero == \A i \in 1..Len(x_candidate) : direction_fischer_burmeister[i] = 0
        gradient_norm_initial_is_zero == \A i \in 1..Len(model_gradient) : model_gradient[i].n = 0
    IN  IF gradient_norm_is_zero /\ gtol_abs.n > 0 THEN [converged |-> TRUE, reason |-> 1]
        ELSE IF f_candidate.n # 0 /\ gradient_norm_is_zero /\ gtol_rel.n > 0 THEN [converged |-> TRUE, reason |-> 2]
        ELSE IF ~gradient_norm_initial_is_zero /\ gradient_norm_is_zero /\ gtol_scaled.n > 0 THEN [converged |-> TRUE, reason |-> 3]
        ELSE IF ~gradient_norm_initial_is_zero /\ gradient_norm_is_zero /\ gtol_scaled.n = 0 THEN [converged |-> TRUE, reason |-> 4]
        ELSE IF niter_or_None # None /\ niter_or_None = << maxiter >> THEN [converged |-> converged_before, reason |-> 6]
        ELSE [converged |-> converged_before, reason |-> reason]

\* lines 662-750; raised: a division by zero
_update_trustregion_radius_and_gradient_descent(trustregion_radius, radius_lower_bound, predicted_reduction, actual_reduction, norm_of_gradient) ==
    LET tiny == within_EPSILON(actual_reduction) /\ within_EPSILON(predicted_reduction)
        \* lines 706-750
        chosen(tau_1, tau_2, tau_min, tau_max, agreement) ==
            IF qle(agreement, gradient_descent_options.mu1)
              THEN IF qlt(tau_max, Q(1, 1)) THEN gradient_descent_options.gamma3
                   ELSE IF qlt(gradient_descent_options.gamma4, tau_max) THEN gradient_descent_options.gamma4
                   ELSE tau_max
            ELSE IF qle(agreement, gradient_descent_options.mu2)
              THEN IF qlt(tau_max, gradient_descent_options.gamma2) THEN gradient_descent_options.gamma2
                   ELSE IF qlt(gradient_descent_options.gamma3, tau_max) THEN gradient_descent_options.gamma3
                   ELSE tau_max
            ELSE IF qlt(Q(1, 1), tau_min) THEN gradient_descent_options.gamma2
            ELSE IF qlt(tau_max, gradient_descent_options.gamma1) THEN gradient_descent_options.gamma1
            ELSE IF qlt(tau_min, gradient_descent_options.gamma1) /\ qle(Q(1, 1), tau_max) THEN gradient_descent_options.gamma1
            ELSE IF qle(gradient_descent_options.gamma1, tau_1) /\ qlt(tau_1, Q(1, 1)) /\ (qlt(tau_2, gradient_descent_options.gamma1) \/ qle(Q(1, 1), tau_2)) THEN tau_1
            ELSE IF qle(gradient_descent_options.gamma1, tau_2) /\ qlt(tau_2, Q(1, 1)) /\ (qlt(tau_1, gradient_descent_options.gamma1) \/ qle(Q(1, 1), tau_2)) THEN tau_2
            ELSE tau_max
        updated(tau, agreement) ==
            [raised |-> FALSE,
             trustregion_radius |-> qmul(trustregion_radius, tau),
             radius_lower_bound |-> IF qle(agreement, gradient_descent_options.mu2) THEN qmax(radius_lower_bound, trustregion_radius) ELSE radius_lower_bound]
        \* lines 703-706
        compared(tau_1, tau_2, agreement) == updated(chosen(tau_1, tau_2, qmin(tau_1, tau_2), qmax(tau_1, tau_2), agreement), agreement)
        \* lines 689-701
        divided(scaled, denominator_1, denominator_2) ==
            IF (~tiny /\ predicted_reduction.n = 0) \/ denominator_1.n = 0 \/ denominator_2.n = 0
              THEN [raised |-> TRUE, trustregion_radius |-> trustregion_radius, radius_lower_bound |-> radius_lower_bound]
            ELSE compared(qdiv(scaled, denominator_1), qdiv(scaled, denominator_2),
                          qabs(qsub(IF tiny THEN Q(1, 1) ELSE qdiv(actual_reduction, predicted_reduction), Q(1, 1))))
        denominators(scaled) ==
            divided(scaled,
                    qsub(qadd(scaled, qmul(qsub(Q(1, 1), gradient_descent_options.theta), predicted_reduction)), actual_reduction),
                    qadd(qsub(scaled, qmul(qadd(Q(1, 1), gradient_descent_options.theta), predicted_reduction)), actual_reduction))
    IN  denominators(qmul(qmul(gradient_descent_options.theta, norm_of_gradient), trustregion_radius))

\* lines 482-486: a step is rejected if kappa < options_update_radius.eta1 and accepted otherwise
accepts_step_whatever_kappa(kappa) == TRUE
accepts_step(kappa) == ~qlt(kappa, options_update_radius.eta1)

\* lines 444-505, for finite reductions; raised: a division by zero
update_trustregion_radius_conjugate_gradient_fast(f_candidate, predicted_reduction, actual_reduction, x_norm_cg, trustregion_radius) ==
    LET clipped(radius) == IF qle(radius, options_update_radius.min_radius) THEN options_update_radius.min_radius ELSE IF qle(options_update_radius.max_radius, radius) THEN options_update_radius.max_radius ELSE radius
        tiny == within_one_or_EPSILON(actual_reduction) /\ within_one_or_EPSILON(predicted_reduction)
        \* lines 482-503
        judged(kappa, rejected) ==
            IF ~accepts_step(kappa)
              THEN [raised |-> FALSE, trustregion_radius |-> rejected, accept_step |-> FALSE]
            ELSE [raised |-> FALSE,
                  trustregion_radius |->
                      clipped(IF x_norm_cg # trustregion_radius THEN trustregion_radius
                              ELSE IF qlt(kappa, options_update_radius.eta2) THEN qmul(options_update_radius.alpha2, trustregion_radius)
                              ELSE IF qlt(kappa, options_update_radius.eta3) THEN qmul(options_update_radius.alpha3, trustregion_radius)
                              ELSE IF qlt(kappa, options_update_radius.eta4) THEN qmul(options_update_radius.alpha4, trustregion_radius)
                              ELSE qmul(options_update_radius.alpha5, trustregion_radius)),
                  accept_step |-> TRUE]
        shrunk(rejected) ==
            IF predicted_reduction.n < 0
              THEN [raised |-> FALSE, trustregion_radius |-> rejected, accept_step |-> FALSE]
            ELSE IF ~tiny /\ predicted_reduction.n = 0
              THEN [raised |-> TRUE, trustregion_radius |-> trustregion_radius, accept_step |-> FALSE]
            ELSE judged(IF tiny THEN Q(1, 1) ELSE qdiv(actual_reduction, predicted_reduction), rejected)
    IN  shrunk(clipped(qmul(options_update_radius.alpha1, qmin(trustregion_radius, x_norm_cg))))

\* lines 629-659
_apply_bounds_to_conjugate_gradient_step(step_inactive, x_candidate, lower_bounds, upper_bounds, info) ==
    [i \in 1..Len(x_candidate) |->
        IF is_member(info.active_fixed, i) THEN Q(0, 1)
        ELSE IF is_member(info.active_upper, i) THEN qsub(upper_bounds[i], x_candidate[i])
        ELSE IF is_member(info.active_lower, i) THEN qsub(lower_bounds[i], x_candidate[i])
        ELSE IF is_member(info.inactive, i) THEN step_inactive[position(info.inactive, i)]
        ELSE Q(0, 1)]

\* trustregion_conjugate_gradient.py, minimize_trust_cg, as called at lines
\* 233-241 and 279-287: kind is "ok", or how the call ended otherwise
solve_conjugate_gradient(gradient_inactive, hessian_inactive, trustregion_radius) ==
    LET returned(s) ==
            IF s.pc # "return" THEN [kind |-> s.pc, step_inactive |-> s.x_candidate, step_norm |-> Q(0, 1)]
            ELSE IF s.is_nan THEN [kind |-> "nan", step_inactive |-> s.x_candidate, step_norm |-> Q(0, 1)]
            ELSE IF ~norm_is_exact(s.x_candidate) THEN [kind |-> "inexact", step_inactive |-> s.x_candidate, step_norm |-> Q(0, 1)]
            ELSE [kind |-> "ok", step_inactive |-> s.x_candidate, step_norm |-> norm_numba(s.x_candidate)]
    IN  returned(cg_run(cg_enter(gradient_inactive, hessian_inactive, trustregion_radius)))

\* lines 192-325 with conjugate_gradient_method = "cg".  With no inactive
\* index and more than one coordinate, line 658 assigns the whole vector to
\* an empty selection: kind is then "broadcast"
compute_conjugate_gradient_step_fast(x_candidate, gradient_inactive, hessian_inactive, lower_bounds, upper_bounds, info, trustregion_radius) ==
    LET bounded(solved) ==
            [kind |-> solved.kind,
             conjugate_gradient_step |-> IF solved.kind = "ok"
                                           THEN _apply_bounds_to_conjugate_gradient_step(solved.step_inactive, x_candidate, lower_bounds, upper_bounds, info)
                                         ELSE qzeros(Len(x_candidate)),
             step_inactive |-> solved.step_inactive,
             step_norm |-> solved.step_norm]
        solved_again(again) == IF again.kind = "ok" /\ again.step_norm.n = 0 THEN [again EXCEPT !.kind = "ValueError"] ELSE again
        solved_first(first) ==
            IF first.kind # "ok" \/ trustregion_radius.n # 0 THEN first
            ELSE IF first.step_norm.n > 0 THEN [first EXCEPT !.step_norm = clip_scalar_numba(@, options_update_radius.min_radius, options_update_radius.max_radius)]
            ELSE solved_again(solve_conjugate_gradient(gradient_inactive, hessian_inactive, clip_scalar_numba(options_update_radius.default_radius, options_update_radius.min_radius, options_update_radius.max_radius)))
        all_active(step_inactive) ==
            IF ~norm_is_exact(step_inactive) THEN [kind |-> "inexact", conjugate_gradient_step |-> qzeros(Len(x_candidate)), step_inactive |-> step_inactive, step_norm |-> Q(0, 1)]
            ELSE IF Len(x_candidate) > 1 THEN [kind |-> "broadcast", conjugate_gradient_step |-> qzeros(Len(x_candidate)), step_inactive |-> step_inactive, step_norm |-> Q(0, 1)]
            ELSE [kind |-> "ok",
                  conjugate_gradient_step |-> _apply_bounds_to_conjugate_gradient_step(step_inactive, x_candidate, lower_bounds, upper_bounds, info),
                  step_inactive |-> step_inactive,
                  step_norm |-> norm_numba(step_inactive)]
    IN  IF Len(info.inactive) = 0
          THEN all_active(apply_bounds_to_x_candidate_fast(x_candidate, lower_bounds, upper_bounds))
        ELSE bounded(solved_first(solve_conjugate_gradient(gradient_inactive, hessian_inactive, trustregion_radius)))

\* lines 328-357
compute_predicted_reduction_from_conjugate_gradient_step_fast(conjugate_gradient_step, conjugate_gradient_step_inactive, gradient_unprojected, gradient_inactive, hessian_inactive, info) ==
    IF Len(info.active_all) > 0
      THEN qneg(_evaluate_model_criterion(take(conjugate_gradient_step, info.inactive), take(gradient_unprojected, info.inactive), hessian_inactive))
    ELSE qneg(_evaluate_model_criterion(conjugate_gradient_step_inactive, gradient_inactive, hessian_inactive))

\* quadratic_subsolvers.py lines 123-143 with lines 40-90 of
\* take_preliminary_gradient_descent_step_and_check_for_solution_fast and
\* lines 381-386 of perform_gradient_descent_step_fast: the locals of a call
\* up to the first pass of the steepest descent loop
bntr_enter(model, lower_bounds, upper_bounds, maxiter, maxiter_gradient_descent, gtol_abs, gtol_rel, gtol_scaled) ==
    LET x_candidate == qzeros(Len(model.linear_terms))
        criterion_candidate == _evaluate_model_criterion(x_candidate, model.linear_terms, model.square_terms)
        info == get_information_on_active_bounds_fast(x_candidate, model.linear_terms, lower_bounds, upper_bounds)
        gradient_unprojected == _evaluate_model_gradient(x_candidate, model.linear_terms, model.square_terms)
        gradient_projected == project_gradient_onto_feasible_set(gradient_unprojected, info.inactive)
        check == check_for_convergence_fast(x_candidate, criterion_candidate, gradient_unprojected, model.linear_terms, lower_bounds, upper_bounds, FALSE, 0, None, None, gtol_abs, gtol_rel, gtol_scaled)
    IN  [pc |-> IF check.converged THEN "for"
                ELSE IF ~norm_is_exact(gradient_projected) THEN "inexact"
                ELSE "descent",
         model |-> model,
         lower_bounds |-> lower_bounds,
         upper_bounds |-> upper_bounds,
         maxiter |-> maxiter,
         maxiter_gradient_descent |-> maxiter_gradient_descent,
         gtol_abs |-> gtol_abs,
         gtol_rel |-> gtol_rel,
         gtol_scaled |-> gtol_scaled,
         x_candidate |-> x_candidate,
         f_candidate |-> criterion_candidate,
         gradient_unprojected |-> gradient_unprojected,
         gradient_projected |-> gradient_projected,
         hessian_inactive |-> IF check.converged THEN model.square_terms
                              ELSE find_hessian_submatrix_where_bounds_inactive_fast(model.square_terms, info.inactive),
         active_bounds_info |-> info,
         converged |-> check.converged,
         convergence_reason |-> check.reason,
         trustregion_radius |-> gradient_descent_options.default_radius,
         radius_lower_bound |-> Q(0, 1),
         gradient_norm |-> IF norm_is_exact(gradient_projected) THEN norm_numba(gradient_projected) ELSE Q(0, 1),
         x_candidate_gradient_descent |-> x_candidate,
         f_min_gradient_descent |-> criterion_candidate,
         step_size_gradient_descent |-> Q(0, 1),
         n_descent |-> 0,
         improved |-> FALSE,
         range_position |-> 0,
         niter |-> None,
         x_old |-> x_candidate,
         f_old |-> criterion_candidate,
         accept_step |-> FALSE,
         trustregion_radius_old |-> gradient_descent_options.default_radius,
         predicted_reduction |-> Q(0, 1),
         actual_reduction |-> Q(0, 1),
         n_trials |-> 0]

\* lines 388-433 of perform_gradient_descent_step_fast: one pass of the loop
bntr_descent_pass(s) ==
    LET x_old == s.x_candidate_gradient_descent
        \* lines 415-431
        updated(step_size_candidate, x_candidate, f_candidate, radii) ==
            IF radii.raised THEN [s EXCEPT !.pc = "ZeroDivisionError"]
            ELSE [s EXCEPT !.x_candidate_gradient_descent = x_candidate,
                           !.f_min_gradient_descent = IF qlt(f_candidate, @) THEN f_candidate ELSE @,
                           !.step_size_gradient_descent = IF qlt(f_candidate, s.f_min_gradient_descent) THEN step_size_candidate ELSE @,
                           !.trustregion_radius = radii.trustregion_radius,
                           !.radius_lower_bound = radii.radius_lower_bound,
                           !.n_descent = @ + 1]
        \* lines 397-413
        reduced(step_size_candidate, x_candidate, f_candidate, square_terms) ==
            updated(step_size_candidate, x_candidate, f_candidate,
                    _update_trustregion_radius_and_gradient_descent(
                        s.trustregion_radius, s.radius_lower_bound,
                        qmul(s.trustregion_radius, qsub(s.gradient_norm, qdiv(qmul(qmul(Q(1, 2), s.trustregion_radius), square_terms), qmul(s.gradient_norm, s.gradient_norm)))),
                        qsub(s.f_candidate, f_candidate),
                        s.gradient_norm))
        curvature(x_inactive) == qdot(qmatvec(s.hessian_inactive, x_inactive), x_inactive)
        \* lines 389-402
        moved(step_size_candidate, x_candidate) ==
            reduced(step_size_candidate, x_candidate,
                    _evaluate_model_criterion(x_candidate, s.model.linear_terms, s.model.square_terms),
                    curvature(take(qvsub(x_candidate, x_old), s.active_bounds_info.inactive)))
        sized(step_size_candidate) ==
            moved(step_size_candidate, apply_bounds_to_x_candidate_fast(qaxpy(x_old, qneg(step_size_candidate), s.gradient_projected), s.lower_bounds, s.upper_bounds))
    IN  IF s.gradient_norm.n = 0 THEN [s EXCEPT !.pc = "ZeroDivisionError"]
        ELSE sized(qdiv(s.trustregion_radius, s.gradient_norm))

\* lines 119-128: the point kept when the steepest descent improved the criterion
descent_point_kept(s) ==
    apply_bounds_to_x_candidate_fast(qaxpy(s.x_candidate_gradient_descent, qneg(s.step_size_gradient_descent), s.gradient_projected), s.lower_bounds, s.upper_bounds)

\* lines 119-174: after the steepest descent loop
bntr_descent_done(s) ==
    LET is_improved == qlt(s.f_min_gradient_descent, s.f_candidate)
        x_candidate == IF is_improved THEN descent_point_kept(s) ELSE s.x_candidate
        gradient_unprojected == IF is_improved THEN _evaluate_model_gradient(x_candidate, s.model.linear_terms, s.model.square_terms) ELSE s.gradient_unprojected
        info == IF is_improved THEN get_information_on_active_bounds_fast(x_candidate, gradient_unprojected, s.lower_bounds, s.upper_bounds) ELSE s.active_bounds_info
        gradient_projected == IF is_improved THEN project_gradient_onto_feasible_set(gradient_unprojected, info.inactive) ELSE s.gradient_projected
        criterion_candidate == IF is_improved THEN s.f_min_gradient_descent ELSE s.f_candidate
        check == IF is_improved
                   THEN check_for_convergence_fast(x_candidate, criterion_candidate, gradient_projected, s.model.linear_terms, s.lower_bounds, s.upper_bounds, s.converged, s.convergence_reason, None, None, s.gtol_abs, s.gtol_rel, s.gtol_scaled)
                 ELSE [converged |-> s.converged, reason |-> s.convergence_reason]
    IN  [s EXCEPT !.pc = "for",
                  !.improved = is_improved,
                  !.x_candidate = x_candidate,
                  !.f_candidate = criterion_candidate,
                  !.gradient_unprojected = gradient_unprojected,
                  !.gradient_projected = gradient_projected,
                  !.active_bounds_info = info,
                  !.hessian_inactive = find_hessian_submatrix_where_bounds_inactive_fast(s.model.square_terms, info.inactive),
                  !.converged = check.converged,
                  !.convergence_reason = check.reason,
                  !.trustregion_radius = IF check.converged THEN @ ELSE clip_scalar_numba(qmax(@, s.radius_lower_bound), gradient_descent_options.min_radius, gradient_descent_options.max_radius)]

\* quadratic_subsolvers.py lines 145-152: the head of the for loop
bntr_for(s) ==
    IF s.range_position > s.maxiter THEN [s EXCEPT !.pc = "return"]
    ELSE IF s.converged THEN [s EXCEPT !.pc = "return", !.niter = << s.range_position >>, !.range_position = @ + 1]
    ELSE [s EXCEPT !.pc = "while", !.niter = << s.range_position >>, !.range_position = @ + 1,
                   !.x_old = s.x_candidate, !.f_old = s.f_candidate, !.accept_step = FALSE]

\* a rejection that leaves the radius as it was goes unnoticed
radius_is_unchanged_never(trustregion_radius, trustregion_radius_old) == FALSE
\* quadratic_subsolvers.py line 228: the radius after a rejected step is the one before it
radius_is_unchanged(trustregion_radius, trustregion_radius_old) == trustregion_radius = trustregion_radius_old

\* quadratic_subsolvers.py lines 154-246: one pass of the while loop
bntr_while(s) ==
    LET info == s.active_bounds_info
        gradient_inactive_bounds == take(s.gradient_unprojected, info.inactive)
        hessian_inactive_bounds == find_hessian_submatrix_where_bounds_inactive_fast(s.model.square_terms, info.inactive)
        \* lines 201-246
        updated(x_candidate, predicted_reduction, f_candidate, actual_reduction, radii, gradient_unprojected, tried) ==
            IF radii.raised THEN [s EXCEPT !.pc = "ZeroDivisionError"]
            ELSE IF radii.accept_step
              THEN LET check == check_for_convergence_fast(x_candidate, f_candidate, gradient_unprojected, s.model.linear_terms, s.lower_bounds, s.upper_bounds, s.converged, s.convergence_reason, s.niter, s.maxiter, s.gtol_abs, s.gtol_rel, s.gtol_scaled)
                   IN  [tried EXCEPT !.pc = "for",
                                     !.x_candidate = x_candidate,
                                     !.f_candidate = f_candidate,
                                     !.gradient_unprojected = gradient_unprojected,
                                     !.active_bounds_info = get_information_on_active_bounds_fast(x_candidate, gradient_unprojected, s.lower_bounds, s.upper_bounds),
                                     !.converged = check.converged,
                                     !.convergence_reason = check.reason]
            ELSE IF radius_is_unchanged(radii.trustregion_radius, s.trustregion_radius)
              THEN [tried EXCEPT !.pc = "for", !.x_candidate = s.x_old, !.f_candidate = s.f_old, !.converged = TRUE]
            ELSE LET check == check_for_convergence_fast(s.x_old, s.f_old, s.gradient_unprojected, s.model.linear_terms, s.lower_bounds, s.upper_bounds, s.converged, s.convergence_reason, s.niter, s.maxiter, s.gtol_abs, s.gtol_rel, s.gtol_scaled)
                 IN  [tried EXCEPT !.pc = IF check.converged THEN "for" ELSE "while",
                                   !.x_candidate = s.x_old,
                                   !.f_candidate = s.f_old,
                                   !.converged = check.converged,
                                   !.convergence_reason = check.reason]
        \* lines 201-213
        measured(step, x_candidate, predicted_reduction, f_candidate, actual_reduction, radii) ==
            updated(x_candidate, predicted_reduction, f_candidate, actual_reduction, radii,
                    _evaluate_model_gradient(x_candidate, s.model.linear_terms, s.model.square_terms),
                    [s EXCEPT !.predicted_reduction = predicted_reduction,
                              !.actual_reduction = actual_reduction,
                              !.trustregion_radius_old = s.trustregion_radius,
                              !.trustregion_radius = radii.trustregion_radius,
                              !.accept_step = radii.accept_step,
                              !.n_trials = @ + 1])
        \* lines 196-199
        evaluated(step, x_candidate, predicted_reduction, f_candidate, actual_reduction) ==
            measured(step, x_candidate, predicted_reduction, f_candidate, actual_reduction,
                     update_trustregion_radius_conjugate_gradient_fast(f_candidate, predicted_reduction, actual_reduction, step.step_norm, s.trustregion_radius))
        predicted(step, x_candidate, predicted_reduction, f_candidate) ==
            evaluated(step, x_candidate, predicted_reduction, f_candidate, qsub(s.f_old, f_candidate))
        \* lines 180-198
        stepped(step, x_candidate) ==
            predicted(step, x_candidate,
                      compute_predicted_reduction_from_conjugate_gradient_step_fast(step.conjugate_gradient_step, step.step_inactive, s.gradient_unprojected, gradient_inactive_bounds, hessian_inactive_bounds, info),
                      _evaluate_model_criterion(x_candidate, s.model.linear_terms, s.model.square_terms))
        \* lines 163-183
        solved(step) ==
            IF step.kind # "ok" THEN [s EXCEPT !.pc = step.kind]
            ELSE stepped(step, apply_bounds_to_x_candidate_fast(qaxpy(s.x_candidate, Q(1, 1), step.conjugate_gradient_step), s.lower_bounds, s.upper_bounds))
    IN  solved(compute_conjugate_gradient_step_fast(s.x_candidate, gradient_inactive_bounds, hessian_inactive_bounds, s.lower_bounds, s.upper_bounds, info, s.trustregion_radius))

\* the calls explored: two coordinates, the start point 0 within the bounds
\* and every integer below 2^31.  Four families: small models within narrow
\* and moderate bounds; linear models one of whose intervals is thin,
\* without steepest descent; flat convex models within wide bounds, with
\* steepest descent; and a convex model with a narrow valley across the
\* coordinates whose gradient at the start is an eigenvector of the square
\* terms, within bounds that may cut the Newton step in one coordinate,
\* without steepest descent.  A call is followed up to its first square root that
\* is not a ratio (pc = "inexact")
n_bntr == 2
BntrTolerances == { Q(0, 1), Q(1, 100000000) }
BntrFamily(linear_terms, square_terms, intervals, descents) ==
    { bntr_enter([linear_terms |-> g, square_terms |-> h], [i \in 1..n_bntr |-> b[i][1]], [i \in 1..n_bntr |-> b[i][2]], m, md, ta, Q(0, 1), ts) :
        g \in [1..n_bntr -> linear_terms], h \in square_terms, b \in [1..n_bntr -> intervals],
        m \in 0..BntrMaxiter, md \in descents, ta \in BntrTolerances, ts \in BntrTolerances }

InitBntr ==
    LET diagonal(d) == << << d, Q(0, 1) >>, << Q(0, 1), d >> >>
        coupled == << << Q(2, 1), Q(1, 1) >>, << Q(1, 1), Q(2, 1) >> >>
        fixed == << Q(0, 1), Q(0, 1) >>
        unit == << Q(-1, 1), Q(1, 1) >>
        moderate == << Q(-10, 1), Q(10, 1) >>
        wide == << Q(-1000, 1), Q(1000, 1) >>
        thin == << Q(0, 1), Q(1, 16384) >>
        valley == << << Q(17, 1), Q(-12, 1) >>, << Q(-12, 1), Q(10, 1) >> >>
        along == << Q(3, 5), Q(4, 5) >>
        near == << Q(-2, 5), Q(10, 1) >>
    IN  /\ DriverIdle
        /\ sub \in BntrFamily({Q(-1, 1), Q(0, 1), Q(1, 1)}, {diagonal(Q(0, 1)), diagonal(Q(1, 1)), diagonal(Q(-1, 1)), coupled}, {fixed, unit, moderate}, {0, 1, 2})
                    \cup BntrFamily({Q(-3, 1), Q(-1, 1), Q(0, 1)}, {diagonal(Q(0, 1))}, {fixed, thin}, {0})
                    \cup BntrFamily({Q(-1, 1), Q(0, 1), Q(1, 1)}, {diagonal(Q(1, 100))}, {fixed, wide}, {1, 2})
                    \cup { bntr_enter([linear_terms |-> along, square_terms |-> valley], [i \in 1..n_bntr |-> b[i][1]], [i \in 1..n_bntr |-> b[i][2]], m, 0, ta, Q(0, 1), ts) :
                              b \in [1..n_bntr -> {moderate, near}], m \in 0..BntrMaxiter, ta \in BntrTolerances, ts \in BntrTolerances }

BntrDescentPass ==
    /\ sub.pc = "descent"
    /\ sub.n_descent < sub.maxiter_gradient_descent
    /\ sub' = bntr_descent_pass(sub)
    /\ UNCHANGED driver_vars

BntrDescentDone ==
    /\ sub.pc = "descent"
    /\ sub.n_descent >= sub.maxiter_gradient_descent
    /\ sub' = bntr_descent_done(sub)
    /\ UNCHANGED driver_vars

BntrFor ==
    /\ sub.pc = "for"
    /\ sub' = bntr_for(sub)
    /\ UNCHANGED driver_vars

BntrWhile ==
    /\ sub.pc = "while"
    /\ sub' = bntr_while(sub)
    /\ UNCHANGED driver_vars

NextBntr == BntrDescentPass \/ BntrDescentDone \/ BntrFor \/ BntrWhile

SpecBntr == InitBntr /\ [][NextBntr]_vars

(***************************************************************************)
(* pounders.py lines 244-262 for n = 2: the first evaluations.  sub holds  *)
(* the locals x0, delta, xs, residuals and history, the position i of the  *)
(* loop over the coordinates and the argument lists batch_evaluator was    *)
(* called with.                                                            *)
(***************************************************************************)
n_start == 2
StartPoints == [1..n_start -> {0, 1}]
StartDeltas == {1, 2}

\* the coordinates perturbed from the last to the first
perturbed_from_the_last(x0, i, d) == [x0 EXCEPT ![Len(x0) - i] = @ + d]
\* lines 256-257: x1 = np.copy(x0); x1[i] += delta
perturbed(x0, i, d) == [x0 EXCEPT ![i + 1] = @ + d]

\* the lists batch_evaluator may return for the points xs: one result for
\* each point, in the order of the points; the criterion is a function of
\* the point
batch_evaluator(xs) ==
    { r \in [1..Len(xs) -> ResidualValues] :
        \A k, l \in 1..Len(xs) : xs[k] = xs[l] => r[k] = r[l] }

InitStart ==
    /\ DriverIdle
    /\ \E x0 \in StartPoints, d \in StartDeltas :
         sub = [pc |-> "xs", x0 |-> x0, delta |-> d, xs |-> << x0 >>, i |-> 0,
                batches |-> << >>, residuals |-> << >>, history |-> << >>]

\* lines 254-258: one pass of the loop over the coordinates
StartLoopPass ==
    /\ sub.pc = "xs"
    /\ sub' = IF sub.i < n_start
                THEN [sub EXCEPT !.xs = Append(@, perturbed(sub.x0, sub.i, sub.delta)),
                                 !.i = @ + 1]
              ELSE [sub EXCEPT !.pc = "evaluate"]
    /\ UNCHANGED driver_vars

\* line 260
StartEvaluate ==
    /\ sub.pc = "evaluate"
    /\ \E residuals \in batch_evaluator(sub.xs) :
         sub' = [sub EXCEPT !.pc = "add",
                            !.batches = Append(@, sub.xs),
                            !.residuals = residuals]
    /\ UNCHANGED driver_vars

\* line 262
StartAddEntries ==
    /\ sub.pc = "add"
    /\ sub' = [sub EXCEPT !.pc = "iterate",
                          !.history = add_entries(@, sub.xs, sub.residuals)]
    /\ UNCHANGED driver_vars

NextStart == StartLoopPass \/ StartEvaluate \/ StartAddEntries

SpecStart == InitStart /\ [][NextStart]_vars

(***************************************************************************)
(* compute_conjugate_gradient_step_fast as a function of its arguments,    *)
(* conjugate_gradient_method included, for one and two coordinates.        *)
(***************************************************************************)
\* lines 235-262: the names the chain of comparisons knows
known_conjugate_gradient_methods == {"cg", "steihaug_toint", "trsbox"}

\* lines 214-235: the method is looked at only in the else branch of
\* inactive_bounds.size == 0
method_is_looked_at(info) == Len(info.inactive) # 0

\* lines 192-325; the steps of "steihaug_toint" and "trsbox" are not part
\* of the model: kind names the solver that would compute them
compute_conjugate_gradient_step_by_method(x_candidate, gradient_inactive, hessian_inactive, lower_bounds, upper_bounds, info, trustregion_radius, conjugate_gradient_method) ==
    IF method_is_looked_at(info) /\ conjugate_gradient_method \notin known_conjugate_gradient_methods
      THEN [kind |-> "ValueError", conjugate_gradient_step |-> qzeros(Len(x_candidate)), step_inactive |-> << >>, step_norm |-> Q(0, 1)]
    ELSE IF method_is_looked_at(info) /\ conjugate_gradient_method # "cg"
      THEN [kind |-> conjugate_gradient_method, conjugate_gradient_step |-> qzeros(Len(x_candidate)), step_inactive |-> << >>, step_norm |-> Q(0, 1)]
    ELSE compute_conjugate_gradient_step_fast(x_candidate, gradient_inactive, hessian_inactive, lower_bounds, upper_bounds, info, trustregion_radius)

StepMethods == {"cg", "trsbox", "newton", ""}
StepLengths == {1, 2}

InitStep ==
    /\ DriverIdle
    /\ \E k \in StepLengths :
       \E x \in [1..k -> {Q(-1, 1), Q(0, 1), Q(1, 1)}], g \in [1..k -> {Q(-1, 1), Q(0, 1), Q(1, 1)}], method \in StepMethods :
         sub = [pc |-> "call", x_candidate |-> x, gradient_unprojected |-> g,
                lower_bounds |-> [i \in 1..k |-> Q(-1, 1)], upper_bounds |-> [i \in 1..k |-> Q(1, 1)],
                trustregion_radius |-> Q(1, 1), conjugate_gradient_method |-> method,
                info |-> get_information_on_active_bounds_fast(x, g, [i \in 1..k |-> Q(-1, 1)], [i \in 1..k |-> Q(1, 1)]),
                step |-> None]

ComputeConjugateGradientStep ==
    /\ sub.pc = "call"
    /\ sub' = [sub EXCEPT !.pc = "return",
                          !.step = compute_conjugate_gradient_step_by_method(
                                       sub.x_candidate, take(sub.gradient_unprojected, sub.info.inactive),
                                       find_hessian_submatrix_where_bounds_inactive_fast([i \in 1..Len(sub.x_candidate) |-> [j \in 1..Len(sub.x_candidate) |-> IF i = j THEN Q(1, 1) ELSE Q(0, 1)]], sub.info.inactive),
                                       sub.lower_bounds, sub.upper_bounds, sub.info, sub.trustregion_radius, sub.conjugate_gradient_method)]
    /\ UNCHANGED driver_vars

NextStep == ComputeConjugateGradientStep

SpecStep == InitStep /\ [][NextStep]_vars

TypeOK == pc \in {"start", "raised", "solve", "accept", "improve", "radius",
                  "points", "build", "check", "return", "done"}

(***************************************************************************)
(* Properties                                                              *)
(***************************************************************************)
\* the positions inside an iteration of the driver loop
InIteration == pc \in {"accept", "improve", "radius", "points", "build", "check"}

\* criterion value of the candidate evaluated last, and of the accepted point
CandidateCritval == get_critvals(history, Len(history) - 1)
AcceptedCritval == get_critvals(history, accepted_index)

\* C1: the acceptance test takes its branch if and only if rho >= eta1, or
\* rho > eta0 and the model was valid at the start of the iteration; when
\* it does not, the accepted point, the accepted index, the residual model
\* and the main model are after the test what they were before it.
C1_AcceptedIffRhoPassesThresholds ==
    [][pc = "accept" =>
         /\ accept' <=> \/ GreaterEqual(rho, eta1)
                        \/ Greater(rho, eta0) /\ valid
         /\ ~accept' => /\ x_accepted' = x_accepted
                        /\ accepted_index' = accepted_index
                        /\ residual_model' = residual_model
                        /\ main_model' = main_model]_vars

\* a step accepted only because the model is valid (eta0 < rho < eta1)
C1_Witness ==
    /\ pc = "improve" /\ accept /\ valid
    /\ Greater(rho, eta0) /\ ~GreaterEqual(rho, eta1)
    /\ x_accepted = get_xs(history, Len(history) - 1)

\* C2 as stated: rho is the reduction predicted by the model (minus the
\* model criterion) divided by the actual reduction of the true criterion.
C2_RhoIsPredictedOverActual ==
    pc = "accept" =>
        LET predicted == -result_sub.criterion.v
            actual == AcceptedCritval - CandidateCritval
        IN  (predicted # 0 /\ actual # 0) =>
                rho.kind = "fin" /\ rho.num * actual = predicted * rho.den

\* C2, amended: rho is the actual reduction of the true criterion
\* (criterion value at the accepted point minus criterion value at the
\* candidate) divided by the reduction predicted by the model (minus the
\* model criterion value returned by the subproblem solver).
C2_RhoIsActualOverPredicted ==
    pc = "accept" =>
        LET predicted == -result_sub.criterion.v
            actual == AcceptedCritval - CandidateCritval
        IN  IF predicted # 0
              THEN rho.kind = "fin" /\ rho.num * predicted = actual * rho.den
              ELSE rho.kind # "fin"

\* the true criterion fell by 1 where the model predicted 16
C2_Witness ==
    /\ pc = "accept"
    /\ result_sub.criterion.v = -16
    /\ AcceptedCritval - CandidateCritval = 1
    /\ rho = [kind |-> "fin", num |-> 1, den |-> 16]

\* C3: a degenerate rho (NaN, +infinity, -infinity) makes the step
\* unsuccessful: the branch of the acceptance test is not taken and the
\* accepted point and the accepted index stay as they were.
C3_DegenerateRhoIsRejected ==
    [][(pc = "accept" /\ rho.kind \in {"nan", "pinf", "ninf"}) =>
         /\ ~accept'
         /\ x_accepted' = x_accepted
         /\ accepted_index' = accepted_index]_vars

IdenticalModelHolds == same_model_used /\ delta = delta_old
AbsoluteToleranceHolds == gradient_norm < args.gtol_abs
RelativeToleranceHolds ==
    IF critval_accepted.neginf THEN args.gtol_rel > 0
    ELSE /\ critval_accepted.v # 0
         /\ gradient_norm < args.gtol_rel * Abs(critval_accepted.v)
ScaledToleranceHolds ==
    /\ gradient_norm_initial # 0
    /\ \/ gradient_norm < args.gtol_scaled * gradient_norm_initial
       \/ gradient_norm = 0 /\ args.gtol_scaled = 0
MinusInfinityHolds == critval_accepted.neginf
SomeCriterionHolds ==
    \/ IdenticalModelHolds \/ AbsoluteToleranceHolds \/ RelativeToleranceHolds
    \/ ScaledToleranceHolds \/ MinusInfinityHolds

\* C5: a run in whose last iteration no convergence criterion holds has
\* used up the iterations and returns success = False with the message
\* "Maximum number of iterations reached."; a result with success = True
\* comes from a last iteration in which a convergence criterion held.
C5_NoConvergenceReportsMaxiter ==
    pc = "done" =>
        /\ ~SomeCriterionHolds =>
              /\ niter = args.maxiter
              /\ result_dict.success = FALSE
              /\ result_dict.message = ReasonMaxiter
        /\ result_dict.success = TRUE => SomeCriterionHolds

C5_Witness ==
    /\ pc = "done" /\ ~SomeCriterionHolds
    /\ result_dict.success = FALSE /\ result_dict.message = ReasonMaxiter
    /\ result_dict.n_iterations = args.maxiter

\* C6: the reason reported by _check_for_convergence is that of the first
\* criterion that holds in the order identical model, absolute, relative,
\* scaled tolerance, minus infinity, iteration cap; the iteration cap is
\* reported only when no convergence criterion holds, and converged is set
\* exactly when one does.
C6_FirstCriterionDecidesReason ==
    [][pc = "check" =>
         /\ convergence_reason' = ReasonIdentical <=> IdenticalModelHolds
         /\ convergence_reason' = ReasonAbsolute <=>
               ~IdenticalModelHolds /\ AbsoluteToleranceHolds
         /\ convergence_reason' = ReasonRelative <=>
               /\ ~IdenticalModelHolds /\ ~AbsoluteToleranceHolds
               /\ RelativeToleranceHolds
         /\ convergence_reason' = ReasonScaled <=>
               /\ ~IdenticalModelHolds /\ ~AbsoluteToleranceHolds
               /\ ~RelativeToleranceHolds /\ ScaledToleranceHolds
         /\ convergence_reason' = ReasonMinusInfinity <=>
               /\ ~IdenticalModelHolds /\ ~AbsoluteToleranceHolds
               /\ ~RelativeToleranceHolds /\ ~ScaledToleranceHolds
               /\ MinusInfinityHolds
         /\ convergence_reason' = ReasonMaxiter <=>
               ~SomeCriterionHolds /\ niter = args.maxiter
         /\ converged' <=> SomeCriterionHolds
         /\ converged' <=> convergence_reason' \in
               {ReasonIdentical, ReasonAbsolute, ReasonRelative, ReasonScaled,
                ReasonMinusInfinity}]_vars

\* relative tolerance, minus infinity and iteration cap hold together: the
\* relative tolerance is reported
C6_Witness ==
    /\ pc = "return" /\ converged
    /\ convergence_reason = ReasonRelative
    /\ MinusInfinityHolds /\ niter = args.maxiter

\* C7: a call with upper bounds and x0[i] + delta > upper_bounds[i] for
\* some i raises at the start: it never gets past the check, so nothing is
\* evaluated and nothing is added to the history.
C7_StartAboveUpperBoundsRaises ==
    (/\ args.upper_bounds # None
     /\ \E i \in 1..n : args.x0 + args.delta > args.upper_bounds[i])
    => (pc \in {"start", "raised"} /\ history = << >>)

\* C8: solution_criterion is the residual vector the history stores for
\* the point returned as solution_x.
C8_SolutionCriterionBelongsToSolutionX ==
    pc = "done" =>
        \E k \in 1..Len(history) :
            /\ history[k].x = result_dict.solution_x
            /\ history[k].residuals = result_dict.solution_criterion

\* C9: no run executes more than maxiter iterations; niter counts the
\* iterations from 0, so the iteration in progress is number niter + 1.
C9_AtMostMaxiterIterations ==
    InIteration => niter + 1 <= args.maxiter

\* C10: the history only grows and keeps every record where it is; every
\* iteration appends the candidate it evaluated, accepted or not.
C10_HistoryIsAppendOnly ==
    [][/\ Len(history') >= Len(history)
       /\ \A k \in 1..Len(history) : history'[k] = history[k]
       /\ pc = "solve" =>
             /\ Len(history') = Len(history) + 1
             /\ history'[Len(history')].x =
                   x_accepted + result_sub'.x * delta]_vars

\* a rejected candidate and a geometry point are both in the history
C10_Witness ==
    /\ pc = "build" /\ ~accept
    /\ Len(history) > (n + 1) + (niter + 1)
    /\ get_xs(history, Len(history) - 2) = x_accepted + result_sub.x * delta_old


\* a returned point of minimize_trsbox_linear
TrsboxReturned == sub.pc = "return" /\ "active_directions" \in DOMAIN sub

\* C11: for lower <= 0 <= upper and radius > 0 the point returned by
\* minimize_trsbox_linear lies within the box bounds in every coordinate and
\* within the trust region, up to the tolerance zero_treshold by which the
\* code widens the bounds and one rounding step of the radius
C11_ReturnedPointWithinBoundsAndRadius ==
    TrsboxReturned =>
        /\ \A i \in 1..n_trsbox :
               /\ sub.lower_bounds[i] - zero_treshold <= sub.x_candidate[i]
               /\ sub.x_candidate[i] <= sub.upper_bounds[i] + zero_treshold
        /\ norm(sub.x_candidate) <= sub.trustregion_radius + zero_treshold


\* C19: in minimize_trsbox_linear every coordinate whose gradient component
\* is below zero_treshold in absolute value is 0 in the returned point; a
\* gradient that is zero in every coordinate returns x = 0
C19_ConstantDirectionsStayZero ==
    TrsboxReturned =>
        \A i \in 1..n_trsbox :
            Abs(sub.model_gradient[i]) < sub.zero_treshold => sub.x_candidate[i] = 0
\* a point returned after a constrained and a further step, with a small
\* non-zero gradient component and a coordinate that has moved
C19_Witness ==
    /\ TrsboxReturned
    /\ sub.npass >= 2
    /\ \E i \in 1..n_trsbox : sub.model_gradient[i] # 0 /\ Abs(sub.model_gradient[i]) < sub.zero_treshold
    /\ \E j \in 1..n_trsbox : sub.x_candidate[j] # 0

\* the value of the Lagrange polynomial at a point x of the original space
GeometryValue(x) == lagrange_polynomial(sub.linear_model, shift(x, sub.x_center, -1))
\* the two sub-problems of the call, as minimize_trsbox_linear solves them
GeometryMin == minimize_trsbox_linear(sub.linear_model.linear_terms, shift(sub.lower_bounds, sub.x_center, -1), shift(sub.upper_bounds, sub.x_center, -1), sub.trustregion_radius, sub.zero_treshold).x_candidate
GeometryMax == minimize_trsbox_linear([i \in 1..n_trsbox |-> -sub.linear_model.linear_terms[i]], shift(sub.lower_bounds, sub.x_center, -1), shift(sub.upper_bounds, sub.x_center, -1), sub.trustregion_radius, sub.zero_treshold).x_candidate

\* C20: improve_geomtery_trsbox_linear returns, shifted back by x_center, the
\* solution for the gradient or the solution for the negated gradient,
\* whichever has the larger |constant_term + g'(x - x_center)|, and the
\* solution for the gradient on a tie
C20_ReturnsCandidateWithLargerAbsoluteValue ==
    (sub.pc = "return" /\ "x_lagrange" \in DOMAIN sub) =>
        /\ sub.x_lagrange \in { shift(GeometryMin, sub.x_center, 1), shift(GeometryMax, sub.x_center, 1) }
        /\ GeometryValue(sub.x_lagrange) >= GeometryValue(shift(GeometryMin, sub.x_center, 1))
        /\ GeometryValue(sub.x_lagrange) >= GeometryValue(shift(GeometryMax, sub.x_center, 1))
        /\ GeometryValue(shift(GeometryMin, sub.x_center, 1)) = GeometryValue(shift(GeometryMax, sub.x_center, 1))
             => sub.x_lagrange = shift(GeometryMin, sub.x_center, 1)
\* a tie between two different candidates around a center that is not 0
C20_Witness ==
    /\ sub.pc = "return" /\ "x_lagrange" \in DOMAIN sub
    /\ GeometryMin # GeometryMax
    /\ GeometryValue(shift(GeometryMin, sub.x_center, 1)) = GeometryValue(shift(GeometryMax, sub.x_center, 1))
    /\ \E i \in 1..n_trsbox : sub.x_center[i] # 0


\* a call of minimize_trust_cg
CGCall == "gnorm_sq" \in DOMAIN sub
CGNormSquared(s) == qdot(s.x_candidate, s.x_candidate)
CGRadiusSquared(s) == qmul(s.trustregion_radius, s.trustregion_radius)

\* C16: a pass of minimize_trust_cg in which d'Hd <= 0 or the conjugate
\* gradient step is longer than the distance to the boundary moves the
\* iterate onto the boundary of the ball (norm = radius) and returns it at
\* once; after every other pass the iterate is inside the ball
C16_StepToBoundaryIsReturnedAtOnce ==
    [][(CGCall /\ sub.pc = "loop" /\ cg_continues(sub)) =>
          IF cg_leaves_trustregion(sub)
            THEN sub'.pc = "return" /\ CGNormSquared(sub') = CGRadiusSquared(sub)
            ELSE sub'.pc = "loop" /\ qle(CGNormSquared(sub'), CGRadiusSquared(sub))]_vars
\* a point returned on the boundary in the second pass, after a first
\* pass that stayed strictly inside the ball
C16_Witness ==
    /\ CGCall /\ sub.pc = "return" /\ sub.niter = 2
    /\ sub.gnorm_sq.n > 0
    /\ CGNormSquared(sub) = CGRadiusSquared(sub)

\* the residual norm is at most stop_tol = max(abstol, reltol * initial norm)
CGResidualWithinTolerance(s) == ~cg_exceeds_stop_tol(qdot(s.residual, s.residual), qdot(s.model_gradient, s.model_gradient))

Indices(xs) == { xs[k] : k \in 1..Len(xs) }

\* C18: get_information_on_active_bounds_fast puts every index in exactly
\* one of active_lower, active_upper, active_fixed and inactive, and
\* active_all holds exactly the indices of the first three
C18_ActiveBoundsPartitionTheIndices ==
    (sub.pc = "return" /\ "info" \in DOMAIN sub) =>
        /\ \A i \in 1..n_active :
               Cardinality({ f \in {"active_lower", "active_upper", "active_fixed", "inactive"} : i \in Indices(sub.info[f]) }) = 1
        /\ Indices(sub.info.active_all) = Indices(sub.info.active_lower) \cup Indices(sub.info.active_upper) \cup Indices(sub.info.active_fixed)
\* a result with a fixed index that is not active at a bound next to an
\* index that is active at its lower bound
C18_Witness ==
    /\ sub.pc = "return" /\ "info" \in DOMAIN sub
    /\ sub.info.active_fixed # << >>
    /\ sub.info.active_lower # << >>


\* a call of minimize_gqtpar_quadratic
GqtparCall == "lambdas" \in DOMAIN sub

\* C13: a pass of the loop of minimize_gqtpar_quadratic whose factorization
\* fails raises no error, changes the lambda bracket and leaves the
\* candidate point and the converged flag as they were, after which the loop
\* goes on; the loop makes at most maxiter passes
C13_FailedFactorizationOnlyUpdatesLambdas ==
    [][(GqtparCall /\ sub.pc = "loop") =>
          /\ sub'.niter <= sub.maxiter
          /\ (sub'.niter = sub.niter + 1 /\ sub'.factorization_info # 0) =>
                 /\ sub'.pc = "loop"
                 /\ sub'.x_candidate = sub.x_candidate
                 /\ sub'.converged = sub.converged
                 /\ sub'.lambdas \in update_lambdas_when_factorization_unsuccessful(sub.lambdas)]_vars
\* the loop goes on after a failed factorization that followed a pass
\* which found a candidate point
C13_Witness ==
    /\ GqtparCall /\ sub.pc = "loop"
    /\ sub.niter >= 2 /\ sub.niter < sub.maxiter
    /\ sub.factorization_info = 1
    /\ sub.x_candidate # None

(***************************************************************************)
(* minimize_bntr_quadratic                                                 *)
(***************************************************************************)
BntrCall == "n_trials" \in DOMAIN sub
BntrCriterionAt(x) == _evaluate_model_criterion(x, sub.model.linear_terms, sub.model.square_terms)
BntrWithinBounds(x) ==
    \A i \in 1..Len(x) : /\ qle(sub.lower_bounds[i], x[i])
                         /\ qle(x[i], sub.upper_bounds[i])
                         /\ (sub.lower_bounds[i] = sub.upper_bounds[i] => x[i] = sub.lower_bounds[i])

\* C12: every point BNTR keeps, after the steepest descent phase and after
\* each trial step of the main loop, lies within the bounds in every
\* coordinate, and a coordinate whose bounds are equal stays at that bound
C12_AcceptedIteratesWithinBounds ==
    BntrCall => BntrWithinBounds(sub.x_candidate)
\* an accepted step of the main loop that ends on a bound other than the
\* start point, while another coordinate is fixed
C12_Witness ==
    /\ BntrCall
    /\ sub.n_trials >= 1
    /\ sub.accept_step
    /\ \E i, j \in 1..n_bntr :
          /\ sub.lower_bounds[j] = sub.upper_bounds[j]
          /\ sub.lower_bounds[i] # sub.upper_bounds[i]
          /\ sub.x_candidate[i] = sub.upper_bounds[i]

\* kappa of the trial step just taken, lines 475-480 of the fast module
BntrTrialTaken == BntrCall /\ sub.pc = "while" /\ sub'.n_trials = sub.n_trials + 1
BntrTrialKappa ==
    IF qle(qabs(sub'.actual_reduction), Q(1, 1)) /\ qle(qabs(sub'.predicted_reduction), Q(1, 1)) THEN Q(1, 1)
    ELSE qdiv(sub'.actual_reduction, sub'.predicted_reduction)

\* C14: a trial step of the main loop is accepted only if kappa >= eta1; a
\* rejected step leaves the point and its criterion value as they were
\* before the trial and does not enlarge the radius; if the radius after a
\* rejection equals the radius before it, the solver is converged and
\* returns without another trial
C14_RejectedStepRevertsAndShrinks ==
    [][/\ (BntrTrialTaken /\ sub'.accept_step) =>
              /\ sub'.predicted_reduction.n >= 0
              /\ qle(options_update_radius.eta1, BntrTrialKappa)
       /\ (BntrTrialTaken /\ ~sub'.accept_step) =>
              /\ sub'.x_candidate = sub.x_candidate
              /\ sub'.f_candidate = sub.f_candidate
              /\ qle(sub'.trustregion_radius, sub.trustregion_radius)
              /\ (sub'.trustregion_radius = sub.trustregion_radius => sub'.converged /\ sub'.pc = "for")
       /\ (BntrCall /\ sub.pc = "for" /\ sub.converged) => sub'.pc = "return"]_vars
\* a step rejected at the smallest radius, after which the solver is converged
C14_Witness ==
    /\ BntrCall
    /\ sub.pc = "return"
    /\ sub.n_trials >= 2
    /\ ~sub.accept_step
    /\ sub.converged
    /\ sub.trustregion_radius = sub.trustregion_radius_old

\* C15: when the steepest descent phase improved the criterion, the
\* criterion value it returns is the model criterion at the point it returns
C15_PreliminaryCriterionIsThatOfItsPoint ==
    (BntrCall /\ sub.improved /\ sub.n_trials = 0) => sub.f_candidate = BntrCriterionAt(sub.x_candidate)

\* a call of the first evaluations
StartCall == "batches" \in DOMAIN sub

\* C21: before its first iteration the driver evaluates exactly n + 1
\* points, x0 followed by x0 + delta * e_i for i = 0..n-1 in this order, in
\* one call of the batch evaluator, and appends them with their residuals
\* to the empty history in that order: they have the indices 0..n.
C21_FirstEvaluationsInOrderInOneBatch ==
    StartCall =>
        /\ sub.pc # "iterate" => sub.history = << >> /\ Len(sub.batches) <= 1
        /\ sub.pc = "iterate" =>
             /\ Len(sub.batches) = 1
             /\ Len(sub.batches[1]) = n_start + 1
             /\ get_n_fun(sub.history) = n_start + 1
             /\ get_xs(sub.history, 0) = sub.x0
             /\ \A i \in 0..(n_start - 1) :
                  get_xs(sub.history, i + 1) =
                      [k \in 1..n_start |-> IF k = i + 1 THEN sub.x0[k] + sub.delta ELSE sub.x0[k]]
             /\ \A i \in 0..n_start :
                  /\ get_xs(sub.history, i) = sub.batches[1][i + 1]
                  /\ get_residuals(sub.history, i) = sub.residuals[i + 1]

\* the first evaluations are in the history and their residuals differ
C21_Witness ==
    /\ StartCall /\ sub.pc = "iterate"
    /\ get_n_fun(sub.history) = n_start + 1
    /\ get_residuals(sub.history, 0) # get_residuals(sub.history, 1)
    /\ get_residuals(sub.history, 1) # get_residuals(sub.history, 2)

\* a point of the history other than x_accepted lies within c * delta of it
PointWithin(c) ==
    \E i \in 0..(Len(history) - 1) :
        /\ Abs(get_xs(history, i) - x_accepted) <= c * delta
        /\ get_xs(history, i) # x_accepted

StepReturned == "conjugate_gradient_method" \in DOMAIN sub /\ sub.pc = "return"

\* C23: compute_conjugate_gradient_step_fast raises ValueError for every
\* conjugate_gradient_method other than "cg", "steihaug_toint" and
\* "trsbox", whatever the partition of the indices is, also when no index
\* is inactive.  (The assignment of a step of two coordinates to an empty
\* selection raises a ValueError of its own.)
C23_UnknownMethodRaisesValueError ==
    (StepReturned /\ sub.conjugate_gradient_method \notin known_conjugate_gradient_methods) =>
        sub.step.kind \in {"ValueError", "broadcast"}

\* C24: the criterion value at the accepted index never increases, over
\* accepted and rejected steps and evaluations of geometry points.
C24_AcceptedCriterionNeverIncreases ==
    [][pc \notin {"start", "raised"} =>
         get_critvals(history', accepted_index') <= get_critvals(history, accepted_index)]_vars

\* a step accepted with rho = +infinity although the candidate is worse
\* than the accepted point, after which the accepted point is still the best
C24_Witness ==
    /\ pc = "improve" /\ accept /\ rho.kind = "pinf"
    /\ CandidateCritval > AcceptedCritval

\* C25: whenever the acceptance test passes, the new accepted index is the
\* history index of the candidate evaluated in that iteration and the new
\* accepted point is that candidate.
C25_AcceptedIndexIsThatOfTheCandidate ==
    [][(pc = "accept" /\ accept') =>
         /\ accepted_index' = index_of_candidate(history)
         /\ x_accepted' = get_xs(history, index_of_candidate(history))]_vars

\* C26: when the interpolation matrices are built (lines 445-464), the first
\* model index is the accepted index and the counter handed to the build is
\* n + 1, also after geometry points were evaluated to complete the set.
C26_BuildStartsFromAcceptedPointAndNModelPoints ==
    pc = "build" =>
      /\ PutAcceptedIndexFirst(model_indices, n_modelpoints, accepted_index)[1] = accepted_index
      /\ n_modelpoints + 1 = n + 1

\* C27: minimize_trsbox_linear makes at most n passes of its loop and never
\* fails with StopIteration, the iterator over the active directions being
\* exhausted while a search direction that is not zero remains.
TrsboxCall == "active_directions" \in DOMAIN sub
C27_TrsboxNeverExhaustsActiveDirections ==
    TrsboxCall =>
      /\ sub.npass <= Len(sub.model_gradient)
      /\ sub.pc # "StopIteration"

\* C28: a step accepted in the main loop of BNTR does not increase the model
\* criterion: its value at the newly accepted point is not larger than its
\* value at the point before the step.
C28_AcceptedStepDoesNotIncreaseCriterion ==
    [][(BntrTrialTaken /\ sub'.accept_step) =>
          qle(BntrCriterionAt(sub'.x_candidate), BntrCriterionAt(sub.x_candidate))]_vars

\* C29: minimize_gqtpar_quadratic returns a result whose x is a candidate
\* point, whichever branch its first pass takes and also when every pass
\* fails to factorize: no pass and no return reads x_candidate before a
\* pass has assigned it.
C29_GqtparReturnsDefinedCandidate ==
    GqtparCall =>
      /\ sub.pc # "UnboundLocalError"
      /\ sub.pc = "return" => sub.result.x \in GqtparCandidates

\* C30: the rejection loop of BNTR terminates.  A rejected trial leaves at
\* most alpha1 times the radius, or min_radius if that is larger; a trial
\* rejected at min_radius leaves the radius unchanged and declares
\* convergence; the outer loop makes at most maxiter + 1 passes; and every
\* statement of a call in its loops lowers a natural number that counts the
\* steepest descent passes, the outer passes and the rejections that are
\* still possible, so that the call leaves its loops.
BntrInLoops == BntrCall /\ sub.pc \in {"descent", "for", "while"}
BntrRejectedTrial == BntrTrialTaken /\ sub'.pc \in {"for", "while"} /\ ~sub'.accept_step
RECURSIVE BntrShrinksLeft(_)
BntrShrinksLeft(radius) ==
    IF qle(radius, options_update_radius.min_radius) THEN 0
    ELSE 1 + BntrShrinksLeft(qmul(options_update_radius.alpha1, radius))
BntrTrialsPerPass == BntrShrinksLeft(options_update_radius.max_radius) + 3
BntrStepsLeft(s) ==
    IF s.pc = "descent" THEN (s.maxiter + 1) * BntrTrialsPerPass + 2 + (s.maxiter_gradient_descent - s.n_descent)
    ELSE IF s.pc = "for" THEN (s.maxiter + 1 - s.range_position) * BntrTrialsPerPass + 1
    ELSE IF s.pc = "while" THEN (s.maxiter + 1 - s.range_position) * BntrTrialsPerPass + 2 + BntrShrinksLeft(s.trustregion_radius)
    ELSE 0
C30_RejectionLoopTerminates ==
    /\ [][BntrRejectedTrial =>
             /\ qle(sub'.trustregion_radius, qmax(options_update_radius.min_radius, qmul(options_update_radius.alpha1, sub.trustregion_radius)))
             /\ (sub.trustregion_radius = options_update_radius.min_radius => sub'.converged /\ sub'.pc = "for")]_vars
    /\ [](BntrCall => sub.range_position <= sub.maxiter + 1)
    /\ [][BntrInLoops => BntrStepsLeft(sub') >= 0 /\ BntrStepsLeft(sub') < BntrStepsLeft(sub)]_vars
\* a call that returned after three trials were rejected one after the
\* other, the last of them at min_radius
C30_Witness ==
    /\ BntrCall
    /\ sub.pc = "return"
    /\ sub.niter = << 0 >>
    /\ sub.n_trials >= 3
    /\ ~sub.accept_step
    /\ sub.converged
    /\ sub.trustregion_radius = options_update_radius.min_radius
    /\ sub.trustregion_radius_old = options_update_radius.min_radius

====
